---- MODULE Spec2Model ----
(***************************************************************************)
(* A model of fson, the direct-to-byte-buffer JSON encoder.               *)
(*                                                                         *)
(* Bytes are the integers 0..255 and a Go string or []byte content is a   *)
(* sequence of bytes.  A Go slice is a record [arr, len, cap] that points *)
(* into a heap of backing arrays, so that two slices over one array are   *)
(* aliases of each other, as in the program.                               *)
(***************************************************************************)
EXTENDS Integers, Sequences, FiniteSets, TLC

(***************************************************************************)
(* Bounds of the model.                                                    *)
(***************************************************************************)
\* the longest buffer content the builder is driven to
MaxLen == 20
\* the capacity of the small caller buffer (it forces reallocations)
SmallCap == 3
\* the number of backing arrays the heap may hold
MaxArrays == 6
\* the number of calls the caller makes on one builder
MaxCalls == 3
\* the number of calls the caller makes on each of two documents in a row
MaxReuseCalls == 2

\* the longest buffer content a value call is driven to
MaxValueLen == 160
\* the longest string the caller passes when it encodes strings
MaxStrLen == 3
\* the longest slice the caller passes to a typed slice call
MaxElems == 3

\* a caller buffer large enough for every document of the model
BigCap == MaxLen + 2

(***************************************************************************)
(* The bytes the program names.                                            *)
(***************************************************************************)
LBRACE == 123
RBRACE == 125
LBRACKET == 91
RBRACKET == 93
COMMA == 44
COLON == 58
QUOTE == 34
BACKSLASH == 92
MINUS == 45
\* utf8.RuneSelf: the bytes below it are single-byte runes
RuneSelf == 128
\* utf8.RuneError, U+FFFD
RuneError == 65533
\* the byte a used caller buffer is filled with ('x')
JUNK == 120

NullText == <<110, 117, 108, 108>>
TrueText == <<116, 114, 117, 101>>
FalseText == <<102, 97, 108, 115, 101>>
\* upper-case digits in the place of _hex
HexUpper == <<48, 49, 50, 51, 52, 53, 54, 55, 56, 57, 65, 66, 67, 68, 69, 70>>

\* _hex = "0123456789abcdef"
Hex == <<48, 49, 50, 51, 52, 53, 54, 55, 56, 57, 97, 98, 99, 100, 101, 102>>

Last(s) == s[Len(s)]

(***************************************************************************)
(* unicode/utf8: DecodeRuneInString gives <<rune, size>>, and              *)
(* <<RuneError, 1>> for a byte sequence that is no valid encoding.         *)
(***************************************************************************)
IsCont(b) == b >= 128 /\ b <= 191

DecodeRuneInString(s) ==
    LET n == Len(s)
        b0 == s[1]
        bad == <<RuneError, 1>>
    IN  IF n = 0 THEN <<RuneError, 0>>
        ELSE IF b0 < RuneSelf THEN <<b0, 1>>
        ELSE IF b0 < 194 \/ b0 > 244 THEN bad
        ELSE IF b0 <= 223 THEN
            IF n >= 2 /\ IsCont(s[2])
            THEN <<(b0 % 32) * 64 + (s[2] % 64), 2>> ELSE bad
        ELSE IF b0 <= 239 THEN
            LET lo == IF b0 = 224 THEN 160 ELSE 128
                hi == IF b0 = 237 THEN 159 ELSE 191
            IN  IF n >= 3 /\ s[2] >= lo /\ s[2] <= hi /\ IsCont(s[3])
                THEN <<(b0 % 16) * 4096 + (s[2] % 64) * 64 + (s[3] % 64), 3>>
                ELSE bad
        ELSE
            LET lo == IF b0 = 240 THEN 144 ELSE 128
                hi == IF b0 = 244 THEN 143 ELSE 191
            IN  IF n >= 4 /\ s[2] >= lo /\ s[2] <= hi /\ IsCont(s[3]) /\ IsCont(s[4])
                THEN <<(b0 % 8) * 262144 + (s[2] % 64) * 4096
                        + (s[3] % 64) * 64 + (s[4] % 64), 4>>
                ELSE bad

\* utf8.AppendRune(buf, utf8.RuneError): the three bytes EF BF BD
RuneErrorText == <<239, 191, 189>>

(***************************************************************************)
(* safeAppendString: the escaping loop, with its two indices (0-based as  *)
(* in the source).                                                         *)
(***************************************************************************)
\* the index after the bytes from index i on that the loop steps over without
\* writing: those below RuneSelf that need no escape
EndOfRun(s, i) ==
    LET Plain(c) == c < RuneSelf /\ c >= 32 /\ c # BACKSLASH /\ c # QUOTE
    IN  CHOOSE j \in (i + 1)..Len(s) :
            /\ \A n \in (i + 1)..j : Plain(s[n])
            /\ j = Len(s) \/ ~Plain(s[j + 1])

RECURSIVE safeLoop(_, _, _, _)
safeLoop(buf, s, lastProcessedIndex, currentIndex) ==
    IF currentIndex >= Len(s)
    THEN buf \o SubSeq(s, lastProcessedIndex + 1, Len(s))
    ELSE
      LET c == s[currentIndex + 1]
          run == SubSeq(s, lastProcessedIndex + 1, currentIndex)
      IN  IF c >= RuneSelf THEN
              LET d == DecodeRuneInString(SubSeq(s, currentIndex + 1, Len(s)))
              IN  IF d[1] = RuneError /\ d[2] = 1
                  THEN safeLoop(buf \o run \o RuneErrorText, s,
                                currentIndex + 1, currentIndex + 1)
                  ELSE safeLoop(buf, s, lastProcessedIndex, currentIndex + d[2])
          ELSE IF c >= 32 /\ c # BACKSLASH /\ c # QUOTE
          THEN safeLoop(buf, s, lastProcessedIndex, EndOfRun(s, currentIndex))
          ELSE
              LET esc == CASE c = BACKSLASH \/ c = QUOTE -> <<BACKSLASH, c>>
                           [] c = 10 -> <<BACKSLASH, 110>>
                           [] c = 13 -> <<BACKSLASH, 114>>
                           [] c = 9 -> <<BACKSLASH, 116>>
                           [] OTHER -> <<BACKSLASH, 117, 48, 48,
                                         Hex[(c \div 16) + 1], Hex[(c % 16) + 1]>>
              IN  safeLoop(buf \o run \o esc, s, currentIndex + 1, currentIndex + 1)

safeAppendString(buf, s) == buf \o safeLoop(<<>>, s, 0, 0)

\* an appendString that copies the bytes of s between the quotes
appendStringRaw(buf, s) == buf \o <<QUOTE>> \o s \o <<QUOTE>>

appendString(buf, s) == safeAppendString(buf \o <<QUOTE>>, s) \o <<QUOTE>>

(***************************************************************************)
(* Integers.  An integer of w bits is the sequence of its w/8 bytes, the   *)
(* least significant first, in two's complement when its type is signed:  *)
(* an int8 is one byte, an int64 and a uint64 are eight.  int and uint are *)
(* the 64-bit types of a 64-bit platform.                                  *)
(***************************************************************************)
\* the int value n, for 0 <= n < 65536
IntLit(n) == <<n % 256, n \div 256, 0, 0, 0, 0, 0, 0>>

IsNegative(v) == v[Len(v)] >= 128
IsZero(u) == \A i \in 1..Len(u) : u[i] = 0

\* the conversions int64(v) of a signed v and uint64(v) of an unsigned v
Int64Of(v) ==
    LET b(i) == IF i <= Len(v) THEN v[i] ELSE IF IsNegative(v) THEN 255 ELSE 0
    IN  <<b(1), b(2), b(3), b(4), b(5), b(6), b(7), b(8)>>
Uint64Of(v) ==
    LET b(i) == IF i <= Len(v) THEN v[i] ELSE 0
    IN  <<b(1), b(2), b(3), b(4), b(5), b(6), b(7), b(8)>>

\* -u in uint64 arithmetic
Negate(u) ==
    LET x1 == (255 - u[1]) + 1
        x2 == (255 - u[2]) + x1 \div 256
        x3 == (255 - u[3]) + x2 \div 256
        x4 == (255 - u[4]) + x3 \div 256
        x5 == (255 - u[5]) + x4 \div 256
        x6 == (255 - u[6]) + x5 \div 256
        x7 == (255 - u[7]) + x6 \div 256
        x8 == (255 - u[8]) + x7 \div 256
    IN  <<x1 % 256, x2 % 256, x3 % 256, x4 % 256, x5 % 256, x6 % 256, x7 % 256,
          x8 % 256>>

\* u / k and u % k for a uint64 u and 0 < k < 2^15, by long division over the
\* four 16-bit halves of u, one step for each half from the most significant
\* one: x4, x3, x2 and x1 are the dividends of the steps
DivModOf(k, x4, x3, x2, x1) ==
    LET q == <<x4 \div k, x3 \div k, x2 \div k, x1 \div k>>
    IN  [q |-> <<q[4] % 256, q[4] \div 256, q[3] % 256, q[3] \div 256, q[2] % 256,
                 q[2] \div 256, q[1] % 256, q[1] \div 256>>,
         r |-> x1 % k]
DivMod1(u, k, x4, x3, x2) ==
    DivModOf(k, x4, x3, x2, (x2 % k) * 65536 + u[2] * 256 + u[1])
DivMod2(u, k, x4, x3) == DivMod1(u, k, x4, x3, (x3 % k) * 65536 + u[4] * 256 + u[3])
DivMod3(u, k, x4) == DivMod2(u, k, x4, (x4 % k) * 65536 + u[6] * 256 + u[5])
DivMod(u, k) == DivMod3(u, k, u[8] * 256 + u[7])

(***************************************************************************)
(* strconv.AppendInt(dst, i, 10), strconv.AppendUint(dst, i, 10) and       *)
(* strconv.AppendBool.                                                     *)
(***************************************************************************)
\* the n decimal digits of x < 10^n, and the digits of x without leading zeros
Padded(x, n) == [i \in 1..n |-> 48 + ((x \div (10 ^ (n - i))) % 10)]
Unpadded(x) ==
    IF x < 10 THEN Padded(x, 1)
    ELSE IF x < 100 THEN Padded(x, 2)
    ELSE IF x < 1000 THEN Padded(x, 3)
    ELSE Padded(x, 4)

\* the decimal digits of u, four at a time from the least significant
RECURSIVE Digits(_)
\* the digits of a number whose quotient and remainder by 10^4 are d.q and d.r
DigitsOf(d) == IF IsZero(d.q) THEN Unpadded(d.r) ELSE Digits(d.q) \o Padded(d.r, 4)

Digits(u) == DigitsOf(DivMod(u, 10000))

formatBits(dst, u, neg) ==
    dst \o (IF neg THEN <<MINUS>> ELSE <<>>) \o Digits(IF neg THEN Negate(u) ELSE u)

\* an AppendInt that prints the bits of i as an unsigned number
AppendIntUnsigned(dst, i) == formatBits(dst, i, FALSE)

AppendInt(dst, i) == formatBits(dst, i, IsNegative(i))
AppendUint(dst, i) == formatBits(dst, i, FALSE)

(***************************************************************************)
(* time.Duration.String.  A Duration is an int64 count of nanoseconds.    *)
(***************************************************************************)
\* u / 10^p, for p a multiple of 3
RECURSIVE Div10Pow(_, _)
Div10Pow(u, p) == IF p = 0 \/ IsZero(u) THEN u ELSE Div10Pow(DivMod(u, 1000).q, p - 3)

\* the last n decimal digits of v, for n a multiple of 3
RECURSIVE LastDigits(_, _)
LastDigitsOf(d, n) == LastDigits(d.q, n - 3) \o Padded(d.r, 3)
LastDigits(v, n) == IF n = 0 THEN <<>> ELSE LastDigitsOf(DivMod(v, 1000), n)

\* s without the zeros at its end
TrimZeros(s) ==
    SubSeq(s, 1, CHOOSE n \in 0..Len(s) :
                     /\ n = 0 \/ s[n] # 48
                     /\ \A i \in (n + 1)..Len(s) : s[i] = 48)

\* fmtFrac: the fraction of v / 10^prec without its trailing zeros, with the
\* point before it, nothing when the fraction is 0 (the value v / 10^prec it
\* also gives is Div10Pow(v, prec))
FracText(ds) == IF ds = <<>> THEN <<>> ELSE <<46>> \o ds
fmtFrac(v, prec) == FracText(TrimZeros(LastDigits(v, prec)))

fmtInt(v) == Digits(v)

\* hours, minutes and seconds, the hours and the minutes only when there are
\* any: mins is the division of the minutes by 60, s the text of the seconds
HoursMinutes(mins, s) ==
    IF IsZero(mins.q) THEN Unpadded(mins.r) \o <<109>> \o s
    ELSE fmtInt(mins.q) \o <<104>> \o Unpadded(mins.r) \o <<109>> \o s

\* secs is the division of the seconds by 60, frac the fraction of a second
MinutesSeconds(secs, frac) ==
    IF IsZero(secs.q) THEN Unpadded(secs.r) \o frac \o <<115>>
    ELSE HoursMinutes(DivMod(secs.q, 60), Unpadded(secs.r) \o frac \o <<115>>)

\* format, for u nanoseconds, that is us microseconds, ms milliseconds and s
\* seconds: the units are ns, the two bytes of U+00B5 and s, ms, and h m s
\* from one second on
DurationText(u, us, ms, s) ==
    IF IsZero(u) THEN <<48, 115>>
    ELSE IF IsZero(us) THEN fmtInt(u) \o <<110, 115>>
    ELSE IF IsZero(ms) THEN fmtInt(us) \o fmtFrac(u, 3) \o <<194, 181, 115>>
    ELSE IF IsZero(s) THEN fmtInt(ms) \o fmtFrac(u, 6) \o <<109, 115>>
    ELSE MinutesSeconds(DivMod(s, 60), fmtFrac(u, 9))

DurationOf(u) == DurationText(u, Div10Pow(u, 3), Div10Pow(u, 6), Div10Pow(u, 9))

DurationString(d) ==
    IF IsNegative(d) THEN <<MINUS>> \o DurationOf(Negate(d)) ELSE DurationOf(d)

AppendBool(buf, v) == buf \o (IF v THEN TrueText ELSE FalseText)

(***************************************************************************)
(* Floats.  A float is its class and sign and, for a finite value, the    *)
(* shortest decimal digits that identify it among the floats of 64 bits   *)
(* and among those of 32 bits (strconv's decimalSlice: the digits d and   *)
(* the position dp of the decimal point).  float64(v) of a float32 v is   *)
(* the same value, so it is the same record.                               *)
(***************************************************************************)
Dec(d, dp) == [d |-> d, dp |-> dp]
Finite(neg, d64, d32) ==
    [class |-> "finite", neg |-> neg, short64 |-> d64, short32 |-> d32]
NonFinite(class) ==
    [class |-> class, neg |-> class = "-inf", short64 |-> Dec(<<>>, 0),
     short32 |-> Dec(<<>>, 0)]
NaN == NonFinite("nan")
PosInf == NonFinite("+inf")
NegInf == NonFinite("-inf")

\* strconv's %f: -ddddddd.ddddd, with prec digits after the point
FormatF(dst, neg, d, prec) ==
    LET nd == Len(d.d)
        m == IF nd < d.dp THEN nd ELSE d.dp
        int == IF d.dp > 0
               THEN SubSeq(d.d, 1, m) \o [i \in 1..(d.dp - m) |-> 48]
               ELSE <<48>>
        frac == IF prec > 0
                THEN <<46>> \o [i \in 1..prec |->
                                  LET j == d.dp + i - 1
                                  IN  IF 0 <= j /\ j < nd THEN d.d[j + 1] ELSE 48]
                ELSE <<>>
    IN  dst \o (IF neg THEN <<MINUS>> ELSE <<>>) \o int \o frac

\* strconv.AppendFloat(dst, val, 'f', -1, bitSize): the shortest digits
AppendFloat(dst, val, bitSize) ==
    LET d == IF bitSize = 32 THEN val.short32 ELSE val.short64
        prec == IF Len(d.d) > d.dp THEN Len(d.d) - d.dp ELSE 0
    IN  FormatF(dst, val.neg, d, prec)

NaNText == <<78, 97, 78>>
PosInfText == <<43, 73, 110, 102>>
NegInfText == <<45, 73, 110, 102>>

appendFloat(buff, val, bitSize) ==
    CASE val.class = "nan" -> appendString(buff, NaNText)
      [] val.class = "+inf" -> appendString(buff, PosInfText)
      [] val.class = "-inf" -> appendString(buff, NegInfText)
      [] OTHER -> AppendFloat(buff, val, bitSize)

(***************************************************************************)
(* time.Time.AppendFormat.  A time is its calendar fields.  A layout is   *)
(* read from the left: the numeric components of the reference time       *)
(* (2006 06 01 1 02 2 002 15 03 3 04 4 05 5) are replaced by the fields   *)
(* of the time, and every other byte of the layout is copied as it is.    *)
(* The layouts of the model use no other component (no names of months or *)
(* days, no zones, no fractions).                                          *)
(***************************************************************************)
Date(year, month, day, yday, hour, minute, second) ==
    [year |-> year, month |-> month, day |-> day, yday |-> yday, hour |-> hour,
     minute |-> minute, second |-> second]

HasPrefix(s, p) == Len(s) >= Len(p) /\ SubSeq(s, 1, Len(p)) = p

\* nextStdChunk at the head of the layout: <<length of the component, its
\* text for time t>>, or <<0, <<>>>> when the head is no component
StdChunk(layout, t) ==
    LET hour12 == IF t.hour % 12 = 0 THEN 12 ELSE t.hour % 12
    IN  CASE HasPrefix(layout, <<50, 48, 48, 54>>) -> <<4, Padded(t.year, 4)>>
          [] HasPrefix(layout, <<48, 48, 50>>) -> <<3, Padded(t.yday, 3)>>
          [] HasPrefix(layout, <<48, 49>>) -> <<2, Padded(t.month, 2)>>
          [] HasPrefix(layout, <<48, 50>>) -> <<2, Padded(t.day, 2)>>
          [] HasPrefix(layout, <<48, 51>>) -> <<2, Padded(hour12, 2)>>
          [] HasPrefix(layout, <<48, 52>>) -> <<2, Padded(t.minute, 2)>>
          [] HasPrefix(layout, <<48, 53>>) -> <<2, Padded(t.second, 2)>>
          [] HasPrefix(layout, <<48, 54>>) -> <<2, Padded(t.year % 100, 2)>>
          [] HasPrefix(layout, <<49, 53>>) -> <<2, Padded(t.hour, 2)>>
          [] HasPrefix(layout, <<49>>) -> <<1, Unpadded(t.month)>>
          [] HasPrefix(layout, <<50>>) -> <<1, Unpadded(t.day)>>
          [] HasPrefix(layout, <<51>>) -> <<1, Unpadded(hour12)>>
          [] HasPrefix(layout, <<52>>) -> <<1, Unpadded(t.minute)>>
          [] HasPrefix(layout, <<53>>) -> <<1, Unpadded(t.second)>>
          [] OTHER -> <<0, <<>>>>

\* the text of time t in the layout
RECURSIVE Format(_, _)
FormatFrom(c, t, layout) ==
    IF c[1] = 0 THEN <<layout[1]>> \o Format(t, Tail(layout))
    ELSE c[2] \o Format(t, SubSeq(layout, c[1] + 1, Len(layout)))
Format(t, layout) ==
    IF layout = <<>> THEN <<>> ELSE FormatFrom(StdChunk(layout, t), t, layout)

AppendFormat(b, t, layout) == b \o Format(t, layout)

\* an appendTime that escapes the formatted time as appendString does
appendTimeEscaped(buf, t, format) == appendString(buf, Format(t, format))

appendTime(buf, t, format) == AppendFormat(buf \o <<QUOTE>>, t, format) \o <<QUOTE>>

(***************************************************************************)
(* appendArray: the open bracket, the elements with a comma before every  *)
(* one but the first, the close bracket.                                   *)
(***************************************************************************)
appendArray(buf, vals, appendFn(_, _)) ==
    LET after[i \in 1..Len(vals)] ==
            IF i = 1 THEN appendFn(buf \o <<LBRACKET>>, vals[1])
            ELSE appendFn(after[i - 1] \o <<COMMA>>, vals[i])
    IN  IF Len(vals) = 0 THEN buf \o <<LBRACKET, RBRACKET>>
        ELSE after[Len(vals)] \o <<RBRACKET>>

(***************************************************************************)
(* Go slices over a heap of backing arrays.  heap[a] is the whole backing *)
(* array a (its length is its capacity); a slice sees its first len bytes. *)
(* A memory m is a record [heap, buf]: the heap and the slice o.buf.       *)
(***************************************************************************)
Slice(a, l, c) == [arr |-> a, len |-> l, cap |-> c]
NilSlice == Slice(0, 0, 0)

View(h, sl) == IF sl.len = 0 THEN <<>> ELSE SubSeq(h[sl.arr], 1, sl.len)
Contents(m) == View(m.heap, m.buf)

\* the capacity append() gives a grown array: at least double, at least need
GrowCap(old, need) == IF need > 2 * old THEN need ELSE 2 * old

\* c zero bytes, as a fresh array holds them
Zeros(c) == [i \in 1..c |-> 0]

\* an append that does not copy the old bytes into the array it allocates
GoAppendForgets(m, bs) ==
    LET l == m.buf.len
        n == l + Len(bs)
    IN  IF n = l THEN m
        ELSE IF n <= m.buf.cap
        THEN LET a == m.heap[m.buf.arr]
             IN  [heap |-> [m.heap EXCEPT ![m.buf.arr] =
                               SubSeq(a, 1, l) \o bs \o SubSeq(a, n + 1, m.buf.cap)],
                  buf |-> Slice(m.buf.arr, n, m.buf.cap)]
        ELSE LET c == GrowCap(m.buf.cap, n)
             IN  [heap |-> Append(m.heap, Zeros(l) \o bs \o Zeros(c - n)),
                  buf |-> Slice(Len(m.heap) + 1, n, c)]

\* buf = append(buf, bs...)
GoAppend(m, bs) ==
    LET l == m.buf.len
        n == l + Len(bs)
    IN  IF n = l THEN m
        ELSE IF n <= m.buf.cap
        THEN LET a == m.heap[m.buf.arr]
             IN  [heap |-> [m.heap EXCEPT ![m.buf.arr] =
                               SubSeq(a, 1, l) \o bs \o SubSeq(a, n + 1, m.buf.cap)],
                  buf |-> Slice(m.buf.arr, n, m.buf.cap)]
        ELSE LET c == GrowCap(m.buf.cap, n)
             IN  [heap |-> Append(m.heap, Contents(m) \o bs \o Zeros(c - n)),
                  buf |-> Slice(Len(m.heap) + 1, n, c)]

\* buf[len(buf)-1] = b
SetLast(m, b) ==
    [m EXCEPT !.heap = [@ EXCEPT ![m.buf.arr] = [@ EXCEPT ![m.buf.len] = b]]]

\* buf[len(buf)-1]
LastByte(m) == m.heap[m.buf.arr][m.buf.len]

\* buf = f(buf, v) for an encoder f that only appends to its buffer
Encoded(m, nb) == GoAppend(m, SubSeq(nb, m.buf.len + 1, Len(nb)))

(***************************************************************************)
(* The builder's operations, as functions of the memory.                   *)
(***************************************************************************)
\* a NewObject that builds in a fresh array instead of the buffer it is given
NewObjectAllocates(h, b) == GoAppend([heap |-> h, buf |-> Slice(b.arr, 0, 0)], <<LBRACE>>)

\* a NewObject that leaves the buffer empty
NewObjectOpensNothing(h, b) == [heap |-> h, buf |-> Slice(b.arr, 0, b.cap)]

\* a NewObject that forgets to truncate the buffer it is given
NewObjectKeepsLen(h, b) == GoAppend([heap |-> h, buf |-> b], <<LBRACE>>)

NewObjectMem(h, b) == GoAppend([heap |-> h, buf |-> Slice(b.arr, 0, b.cap)], <<LBRACE>>)

\* a Key that writes over the last byte of the buffer
KeyOverLast(m, key) ==
    LET cut == [m EXCEPT !.buf.len = @ - 1]
    IN  GoAppend(Encoded(cut, appendString(Contents(cut), key)), <<COLON>>)

\* a Key that ends in a comma
KeyEndsInComma(m, key) ==
    GoAppend(Encoded(m, appendString(Contents(m), key)), <<COMMA>>)

KeyMem(m, key) ==
    GoAppend(Encoded(m, appendString(Contents(m), key)), <<COLON>>)

NullValueMem(m) == GoAppend(GoAppend(m, NullText), <<COMMA>>)

StringValueMem(m, value) ==
    GoAppend(Encoded(m, appendString(Contents(m), value)), <<COMMA>>)

Int64ValueMem(m, value) ==
    GoAppend(Encoded(m, AppendInt(Contents(m), value)), <<COMMA>>)

BoolValueMem(m, value) ==
    GoAppend(Encoded(m, AppendBool(Contents(m), value)), <<COMMA>>)

Uint64ValueMem(m, value) ==
    GoAppend(Encoded(m, AppendUint(Contents(m), value)), <<COMMA>>)
IntValueMem(m, value) == Int64ValueMem(m, Int64Of(value))
IntsValueMem(m, value) ==
    LET appendOne(buf, v) == AppendInt(buf, Int64Of(v))
    IN  GoAppend(Encoded(m, appendArray(Contents(m), value, appendOne)), <<COMMA>>)
Int8ValueMem(m, value) == Int64ValueMem(m, Int64Of(value))
Ints8ValueMem(m, value) ==
    LET appendOne(buf, v) == AppendInt(buf, Int64Of(v))
    IN  GoAppend(Encoded(m, appendArray(Contents(m), value, appendOne)), <<COMMA>>)
Int16ValueMem(m, value) == Int64ValueMem(m, Int64Of(value))
Ints16ValueMem(m, value) ==
    LET appendOne(buf, v) == AppendInt(buf, Int64Of(v))
    IN  GoAppend(Encoded(m, appendArray(Contents(m), value, appendOne)), <<COMMA>>)
Int32ValueMem(m, value) == Int64ValueMem(m, Int64Of(value))
Ints32ValueMem(m, value) ==
    LET appendOne(buf, v) == AppendInt(buf, Int64Of(v))
    IN  GoAppend(Encoded(m, appendArray(Contents(m), value, appendOne)), <<COMMA>>)
Ints64ValueMem(m, value) ==
    LET appendOne(buf, v) == AppendInt(buf, Int64Of(v))
    IN  GoAppend(Encoded(m, appendArray(Contents(m), value, appendOne)), <<COMMA>>)
UintValueMem(m, value) == Uint64ValueMem(m, Uint64Of(value))
UintsValueMem(m, value) ==
    LET appendOne(buf, v) == AppendUint(buf, Uint64Of(v))
    IN  GoAppend(Encoded(m, appendArray(Contents(m), value, appendOne)), <<COMMA>>)
Uint8ValueMem(m, value) == Uint64ValueMem(m, Uint64Of(value))
Uints8ValueMem(m, value) ==
    LET appendOne(buf, v) == AppendUint(buf, Uint64Of(v))
    IN  GoAppend(Encoded(m, appendArray(Contents(m), value, appendOne)), <<COMMA>>)
Uint16ValueMem(m, value) == Uint64ValueMem(m, Uint64Of(value))
Uints16ValueMem(m, value) ==
    LET appendOne(buf, v) == AppendUint(buf, Uint64Of(v))
    IN  GoAppend(Encoded(m, appendArray(Contents(m), value, appendOne)), <<COMMA>>)
Uint32ValueMem(m, value) == Uint64ValueMem(m, Uint64Of(value))
Uints32ValueMem(m, value) ==
    LET appendOne(buf, v) == AppendUint(buf, Uint64Of(v))
    IN  GoAppend(Encoded(m, appendArray(Contents(m), value, appendOne)), <<COMMA>>)
Uints64ValueMem(m, value) ==
    LET appendOne(buf, v) == AppendUint(buf, Uint64Of(v))
    IN  GoAppend(Encoded(m, appendArray(Contents(m), value, appendOne)), <<COMMA>>)
StringsValueMem(m, value) ==
    GoAppend(Encoded(m, appendArray(Contents(m), value, appendString)), <<COMMA>>)
\* a BoolsValue whose elements each bring a comma of their own
BoolsValueCommaAfter(m, value) ==
    LET appendOne(buf, v) == AppendBool(buf, v) \o <<COMMA>>
    IN  GoAppend(Encoded(m, appendArray(Contents(m), value, appendOne)), <<COMMA>>)

BoolsValueMem(m, value) ==
    GoAppend(Encoded(m, appendArray(Contents(m), value, AppendBool)), <<COMMA>>)

\* a DurationValue that writes the count of nanoseconds
DurationValueNanos(m, value) == Int64ValueMem(m, value)

DurationValueMem(m, value) == StringValueMem(m, DurationString(value))
appendDuration(buf, v) == appendString(buf, DurationString(v))
DurationsValueMem(m, value) ==
    GoAppend(Encoded(m, appendArray(Contents(m), value, appendDuration)), <<COMMA>>)

\* a float encoder that writes the non-finite values as bare words
appendFloatBare(buff, val, bitSize) ==
    CASE val.class = "nan" -> buff \o NaNText
      [] val.class = "+inf" -> buff \o PosInfText
      [] val.class = "-inf" -> buff \o NegInfText
      [] OTHER -> AppendFloat(buff, val, bitSize)
\* a Float64Value that writes the non-finite values as bare words
Float64ValueBare(m, value) ==
    GoAppend(Encoded(m, appendFloatBare(Contents(m), value, 64)), <<COMMA>>)

Float64ValueMem(m, value) ==
    GoAppend(Encoded(m, appendFloat(Contents(m), value, 64)), <<COMMA>>)

Float32ValueMem(m, value) == Float64ValueMem(m, value)

appendFloat64(buf, value) == appendFloat(buf, value, 64)
appendFloat32(buf, value) == appendFloat(buf, value, 32)

\* a Floats64Value that leaves the non-finite elements out
RECURSIVE FiniteOnly(_)
FiniteOnly(vals) ==
    IF vals = <<>> THEN <<>>
    ELSE (IF vals[1].class = "finite" THEN <<vals[1]>> ELSE <<>>) \o FiniteOnly(Tail(vals))
Floats64ValueSkips(m, value) ==
    GoAppend(Encoded(m, appendArray(Contents(m), FiniteOnly(value), appendFloat64)),
             <<COMMA>>)

Floats64ValueMem(m, value) ==
    GoAppend(Encoded(m, appendArray(Contents(m), value, appendFloat64)), <<COMMA>>)

Floats32ValueMem(m, value) ==
    GoAppend(Encoded(m, appendArray(Contents(m), value, appendFloat32)), <<COMMA>>)

TimeValueMem(m, value, format) ==
    GoAppend(Encoded(m, appendTime(Contents(m), value, format)), <<COMMA>>)

TimesValueMem(m, value, format) ==
    LET appendOne(buf, v) == appendTime(buf, v, format)
    IN  GoAppend(Encoded(m, appendArray(Contents(m), value, appendOne)), <<COMMA>>)

StartObjectMem(m) == GoAppend(m, <<LBRACE>>)

\* a StartArray that opens with a brace
StartArrayOpensBrace(m) == GoAppend(m, <<LBRACE>>)

StartArrayMem(m) == GoAppend(m, <<LBRACKET>>)

\* an EndObject that overwrites the last byte of an empty object too
EndObjectAlwaysOverwrites(m) == GoAppend(SetLast(m, RBRACE), <<COMMA>>)

\* an EndObject that appends the brace after the trailing comma
EndObjectAlwaysAppends(m) == GoAppend(GoAppend(m, <<RBRACE>>), <<COMMA>>)

\* an EndObject that forgets the trailing comma
EndObjectDropsComma(m) ==
    IF LastByte(m) = LBRACE THEN GoAppend(m, <<RBRACE>>) ELSE SetLast(m, RBRACE)

EndObjectMem(m) ==
    GoAppend(IF LastByte(m) = LBRACE THEN GoAppend(m, <<RBRACE>>)
             ELSE SetLast(m, RBRACE), <<COMMA>>)

\* an EndArray that overwrites the last byte of an empty array too
EndArrayAlwaysOverwrites(m) == GoAppend(SetLast(m, RBRACKET), <<COMMA>>)

\* an EndArray that appends the bracket after the trailing comma
EndArrayAlwaysAppends(m) == GoAppend(GoAppend(m, <<RBRACKET>>), <<COMMA>>)

EndArrayMem(m) ==
    GoAppend(IF LastByte(m) = LBRACKET THEN GoAppend(m, <<RBRACKET>>)
             ELSE SetLast(m, RBRACKET), <<COMMA>>)

\* a Build that appends the brace after the trailing comma
BuildAlwaysAppends(m) == GoAppend(m, <<RBRACE>>)

BuildMem(m) ==
    IF LastByte(m) # LBRACE THEN SetLast(m, RBRACE) ELSE GoAppend(m, <<RBRACE>>)

\* the keyed forms: X(key, v) is Key(key).XValue(v)
NullMem(m, key) == NullValueMem(KeyMem(m, key))
StringMem(m, key, value) == StringValueMem(KeyMem(m, key), value)
\* an Int8 that writes no key
Int8WithoutKey(m, key, value) == Int8ValueMem(m, value)

IntMem(m, key, value) == IntValueMem(KeyMem(m, key), value)
IntsMem(m, key, value) == IntsValueMem(KeyMem(m, key), value)
Int8Mem(m, key, value) == Int8ValueMem(KeyMem(m, key), value)
Ints8Mem(m, key, value) == Ints8ValueMem(KeyMem(m, key), value)
Int16Mem(m, key, value) == Int16ValueMem(KeyMem(m, key), value)
Ints16Mem(m, key, value) == Ints16ValueMem(KeyMem(m, key), value)
Int32Mem(m, key, value) == Int32ValueMem(KeyMem(m, key), value)
Ints32Mem(m, key, value) == Ints32ValueMem(KeyMem(m, key), value)
Int64Mem(m, key, value) == Int64ValueMem(KeyMem(m, key), value)
Ints64Mem(m, key, value) == Ints64ValueMem(KeyMem(m, key), value)
UintMem(m, key, value) == UintValueMem(KeyMem(m, key), value)
UintsMem(m, key, value) == UintsValueMem(KeyMem(m, key), value)
Uint8Mem(m, key, value) == Uint8ValueMem(KeyMem(m, key), value)
Uints8Mem(m, key, value) == Uints8ValueMem(KeyMem(m, key), value)
Uint16Mem(m, key, value) == Uint16ValueMem(KeyMem(m, key), value)
Uints16Mem(m, key, value) == Uints16ValueMem(KeyMem(m, key), value)
Uint32Mem(m, key, value) == Uint32ValueMem(KeyMem(m, key), value)
Uints32Mem(m, key, value) == Uints32ValueMem(KeyMem(m, key), value)
Uint64Mem(m, key, value) == Uint64ValueMem(KeyMem(m, key), value)
Uints64Mem(m, key, value) == Uints64ValueMem(KeyMem(m, key), value)
StringsMem(m, key, value) == StringsValueMem(KeyMem(m, key), value)
BoolsMem(m, key, value) == BoolsValueMem(KeyMem(m, key), value)
DurationMem(m, key, value) == DurationValueMem(KeyMem(m, key), value)
DurationsMem(m, key, value) == DurationsValueMem(KeyMem(m, key), value)
BoolMem(m, key, value) == BoolValueMem(KeyMem(m, key), value)
ObjectMem(m, key) == StartObjectMem(KeyMem(m, key))
Float64Mem(m, key, value) == Float64ValueMem(KeyMem(m, key), value)
Float32Mem(m, key, value) == Float32ValueMem(KeyMem(m, key), value)
Floats64Mem(m, key, value) == Floats64ValueMem(KeyMem(m, key), value)
Floats32Mem(m, key, value) == Floats32ValueMem(KeyMem(m, key), value)
TimeMem(m, key, value, format) == TimeValueMem(KeyMem(m, key), value, format)
TimesMem(m, key, value, format) == TimesValueMem(KeyMem(m, key), value, format)
ArrayMem(m, key) == StartArrayMem(KeyMem(m, key))

\* Reset: truncate the buffer to zero length and append the open brace
ResetMem(m) == GoAppend([m EXCEPT !.buf.len = 0], <<LBRACE>>)

(***************************************************************************)
(* encoding/json's json.Valid, the oracle of the tests: a recogniser of   *)
(* the RFC 8259 grammar.  Each Scan operator takes the text and the index *)
(* of the next byte and gives the index after what it read, or 0 when the *)
(* text is not of that form.                                               *)
(***************************************************************************)
IsDigit(c) == c >= 48 /\ c <= 57
IsHexDigit(c) == IsDigit(c) \/ (c >= 97 /\ c <= 102) \/ (c >= 65 /\ c <= 70)
IsSpace(c) == c \in {32, 9, 10, 13}
At(s, i) == IF i >= 1 /\ i <= Len(s) THEN s[i] ELSE -1

RECURSIVE SkipSpace(_, _)
SkipSpace(s, i) == IF IsSpace(At(s, i)) THEN SkipSpace(s, i + 1) ELSE i

RECURSIVE ScanDigits(_, _)
ScanDigits(s, i) == IF IsDigit(At(s, i)) THEN ScanDigits(s, i + 1) ELSE i

\* the index after the string body that starts at i (after the open quote)
RECURSIVE ScanStringBody(_, _)
ScanStringBody(s, i) ==
    LET c == At(s, i)
    IN  IF c = -1 \/ (c >= 0 /\ c < 32) THEN 0
        ELSE IF c = QUOTE THEN i + 1
        ELSE IF c = BACKSLASH THEN
            LET e == At(s, i + 1)
            IN  IF e \in {QUOTE, BACKSLASH, 47, 98, 102, 110, 114, 116}
                THEN ScanStringBody(s, i + 2)
                ELSE IF e = 117 /\ \A k \in 2..5 : IsHexDigit(At(s, i + k))
                THEN ScanStringBody(s, i + 6)
                ELSE 0
        ELSE ScanStringBody(s, i + 1)

ScanString(s, i) == IF At(s, i) = QUOTE THEN ScanStringBody(s, i + 1) ELSE 0

ScanNumber(s, i) ==
    LET a == IF At(s, i) = MINUS THEN i + 1 ELSE i
        b == IF At(s, a) = 48 THEN a + 1
             ELSE IF IsDigit(At(s, a)) THEN ScanDigits(s, a) ELSE 0
        c == IF b = 0 THEN 0
             ELSE IF At(s, b) = 46
             THEN (IF IsDigit(At(s, b + 1)) THEN ScanDigits(s, b + 1) ELSE 0)
             ELSE b
        d == IF c = 0 THEN 0
             ELSE IF At(s, c) \in {101, 69}
             THEN LET g == IF At(s, c + 1) \in {43, MINUS} THEN c + 2 ELSE c + 1
                  IN  IF IsDigit(At(s, g)) THEN ScanDigits(s, g) ELSE 0
             ELSE c
    IN  d

ScanLiteral(s, i, lit) ==
    IF i + Len(lit) - 1 <= Len(s) /\ SubSeq(s, i, i + Len(lit) - 1) = lit
    THEN i + Len(lit) ELSE 0

RECURSIVE ScanValue(_, _), ScanMembers(_, _), ScanElements(_, _)
ScanValue(s, i) ==
    LET c == At(s, i)
    IN  IF c = LBRACE THEN
            LET j == SkipSpace(s, i + 1)
            IN  IF At(s, j) = RBRACE THEN j + 1 ELSE ScanMembers(s, j)
        ELSE IF c = LBRACKET THEN
            LET j == SkipSpace(s, i + 1)
            IN  IF At(s, j) = RBRACKET THEN j + 1 ELSE ScanElements(s, j)
        ELSE IF c = QUOTE THEN ScanString(s, i)
        ELSE IF c = MINUS \/ IsDigit(c) THEN ScanNumber(s, i)
        ELSE IF c = 116 THEN ScanLiteral(s, i, <<116, 114, 117, 101>>)
        ELSE IF c = 102 THEN ScanLiteral(s, i, <<102, 97, 108, 115, 101>>)
        ELSE IF c = 110 THEN ScanLiteral(s, i, <<110, 117, 108, 108>>)
        ELSE 0

\* "key" : value, then a comma and more members, or the closing brace
ScanMembers(s, i) ==
    LET k == ScanString(s, i)
        c == IF k = 0 THEN 0 ELSE SkipSpace(s, k)
        v == IF c = 0 \/ At(s, c) # COLON THEN 0 ELSE ScanValue(s, SkipSpace(s, c + 1))
        e == IF v = 0 THEN 0 ELSE SkipSpace(s, v)
    IN  IF e = 0 THEN 0
        ELSE IF At(s, e) = RBRACE THEN e + 1
        ELSE IF At(s, e) = COMMA THEN ScanMembers(s, SkipSpace(s, e + 1))
        ELSE 0

\* value, then a comma and more elements, or the closing bracket
ScanElements(s, i) ==
    LET v == ScanValue(s, i)
        e == IF v = 0 THEN 0 ELSE SkipSpace(s, v)
    IN  IF e = 0 THEN 0
        ELSE IF At(s, e) = RBRACKET THEN e + 1
        ELSE IF At(s, e) = COMMA THEN ScanElements(s, SkipSpace(s, e + 1))
        ELSE 0

JsonValid(s) ==
    LET v == ScanValue(s, SkipSpace(s, 1))
    IN  v # 0 /\ SkipSpace(s, v) = Len(s) + 1

(***************************************************************************)
(* The calls the caller has made, kept as a stack of open containers.     *)
(* A frame holds the text of its finished children, written the ordinary  *)
(* way: a comma goes BEFORE every child but the first.  The empty stack   *)
(* stands for a call sequence that is not well formed.                     *)
(***************************************************************************)
Frame(k, t, n, key) == [kind |-> k, text |-> t, n |-> n, key |-> key]
Malformed == <<>>
Top(st) == st[Len(st)]
Pop(st) == SubSeq(st, 1, Len(st) - 1)
Sep(f) == IF f.n = 0 THEN <<>> ELSE <<COMMA>>

CallKey(st, key) ==
    IF st = Malformed \/ Top(st).kind # "obj" \/ Top(st).key THEN Malformed
    ELSE LET f == Top(st)
         IN  Append(Pop(st),
                    Frame("obj", f.text \o Sep(f) \o appendString(<<>>, key) \o <<COLON>>,
                          f.n, TRUE))

CallValue(st, v) ==
    IF st = Malformed THEN Malformed
    ELSE LET f == Top(st)
         IN  IF f.kind = "obj" /\ f.key
             THEN Append(Pop(st), Frame("obj", f.text \o v, f.n + 1, FALSE))
             ELSE IF f.kind = "arr"
             THEN Append(Pop(st), Frame("arr", f.text \o Sep(f) \o v, f.n + 1, FALSE))
             ELSE Malformed

CallStart(st, kind) ==
    IF st = Malformed THEN Malformed
    ELSE LET f == Top(st)
         IN  IF (f.kind = "obj" /\ f.key) \/ f.kind = "arr"
             THEN Append(st, Frame(kind, <<>>, 0, FALSE))
             ELSE Malformed

CallEnd(st, kind) ==
    IF Len(st) < 2 \/ Top(st).kind # kind \/ Top(st).key THEN Malformed
    ELSE LET f == Top(st)
             open == IF kind = "obj" THEN LBRACE ELSE LBRACKET
             close == IF kind = "obj" THEN RBRACE ELSE RBRACKET
         IN  CallValue(Pop(st), <<open>> \o f.text \o <<close>>)

CallBuild(st) ==
    IF Len(st) # 1 THEN Malformed
    ELSE LET f == Top(st)
         IN  IF f.kind = "done" THEN st
             ELSE IF f.kind = "obj" /\ ~f.key
             THEN <<Frame("done", <<LBRACE>> \o f.text \o <<RBRACE>>, f.n, FALSE)>>
             ELSE Malformed

CallNew == <<Frame("obj", <<>>, 0, FALSE)>>

(***************************************************************************)
(* The Start and End calls alone: the kinds of the containers that are    *)
(* open, or Unpaired once an End call had no matching Start.               *)
(***************************************************************************)
Unpaired == <<"unpaired">>
NestStart(n, kind) == IF n = Unpaired THEN Unpaired ELSE Append(n, kind)
NestEnd(n, kind) ==
    IF n = Unpaired \/ n = <<>> \/ Last(n) # kind THEN Unpaired ELSE Pop(n)

(***************************************************************************)
(* The state.                                                              *)
(***************************************************************************)
VARIABLES
    heap,      \* the backing arrays
    cbuf,      \* the caller's buffer, the slice it gives to NewObject
    live,      \* TRUE once an Object has been constructed
    obuf,      \* o.buf
    res,       \* the slice the last Build returned (len 0: none yet)
    ret,       \* the bytes that slice held when Build returned
    pres,      \* the slice the last Build of the previous document returned
    pret,      \* the bytes that slice held when Build returned
    copy,      \* the caller's copy of a result, string(b)
    docs,      \* the number of NewObject and Reset calls so far
    calls,     \* the number of calls made on the current document
    budget,    \* the number of calls the caller makes on each of its documents
    panicked,  \* TRUE once an index expression was out of range
    stack,     \* the calls made on the current document, as open containers
    nest,      \* the Start and End calls made on the current document
    hist,      \* the names of the calls made so far
    arg,       \* the arguments of the last call that was given interesting ones
    lowerBound, \* p.lowerBound
    sizeHint,  \* the size of the buffers p.pool.New makes
    pooled,    \* the buffers in p.pool
    held,      \* the buffer the caller got from the pool and has not put back
    put,       \* what the last Put was given and what it did
    puts,      \* the number of Put calls so far
    tuned,     \* TRUE once an option was applied to a pool that is in use
    loop,      \* a call of safeAppendString: its arguments and its locals
    callers    \* the goroutines that share the pool: where each is, and its buffer

builderVars == <<heap, cbuf, live, obuf, res, ret, pres, pret, copy, docs, calls,
                 budget, panicked, stack, nest, hist, arg>>
poolVars == <<lowerBound, sizeHint, pooled, held, put, puts, tuned>>
otherVars == <<loop, callers>>

vars == <<heap, cbuf, live, obuf, res, ret, pres, pret, copy, docs, calls, budget,
          panicked, stack, nest, hist, arg, lowerBound, sizeHint, pooled, held,
          put, puts, tuned, loop, callers>>

Mem == [heap |-> heap, buf |-> obuf]

\* the values the caller passes
Keys == {<<97>>}
Strings == {<<120>>}
Ints == {IntLit(8)}
Bools == {TRUE}
InitCaps == {0, SmallCap, BigCap}

\* fsonutil: the defaults of a pool
DefaultInitialSize == 1024
DefaultLowerBound == 65536

\* a pool that no option was applied to and that has handed out no buffer
NoPut == [arr |-> 0, cap |-> 0, len |-> 0, strikes |-> 0, bound |-> 0, used |-> 0, low |-> 0,
          sizes |-> {}, recycled |-> TRUE, after |-> 0, under |-> 0]

\* no string is being escaped, and no goroutine shares the pool
NoLoop == [pc |-> "idle"]
NoCallers == <<>>

NewPool ==
    /\ lowerBound = DefaultLowerBound
    /\ sizeHint = DefaultInitialSize
    /\ pooled = <<>>
    /\ held = <<>>
    /\ put = NoPut
    /\ puts = 0
    /\ tuned = FALSE

\* the caller's buffer: c bytes that hold other data (none when c is 0)
InitBuffers ==
    /\ \E c \in InitCaps :
          /\ heap = <<[i \in 1..c |-> JUNK]>>
          /\ cbuf = Slice(1, c, c)
    /\ live = FALSE
    /\ obuf = NilSlice
    /\ res = NilSlice
    /\ ret = <<>>
    /\ pres = NilSlice
    /\ pret = <<>>
    /\ copy = <<>>
    /\ docs = 0
    /\ calls = 0
    /\ panicked = FALSE
    /\ stack = Malformed
    /\ nest = <<>>
    /\ hist = <<>>
    /\ arg = <<>>
    /\ NewPool
    /\ loop = NoLoop
    /\ callers = NoCallers

\* the caller builds one document
Init == InitBuffers /\ budget = <<MaxCalls>>

\* a call on the builder, with arguments a, that leaves memory m, call stack st
\* and nesting n, in a buffer of at most limit bytes
DoesUpTo(name, m, st, n, a, limit) ==
    /\ calls < budget[docs]
    /\ m.buf.len <= limit
    /\ Len(m.heap) <= MaxArrays
    /\ heap' = m.heap
    /\ obuf' = m.buf
    /\ calls' = calls + 1
    /\ stack' = st
    /\ nest' = n
    /\ hist' = Append(hist, name)
    /\ arg' = a
    /\ UNCHANGED <<cbuf, live, res, ret, pres, pret, copy, docs, budget, panicked,
                   poolVars, otherVars>>

DoesWith(name, m, st, n, a) == DoesUpTo(name, m, st, n, a, MaxLen)

\* a call on the builder that leaves memory m, call stack st and nesting n
Does(name, m, st, n) == DoesWith(name, m, st, n, arg)

\* a call that indexes the empty buffer
Panics(name) ==
    /\ panicked' = TRUE
    /\ hist' = Append(hist, name)
    /\ UNCHANGED <<heap, cbuf, live, obuf, res, ret, pres, pret, copy, docs, calls,
                   budget, stack, nest, arg,
                   poolVars, otherVars>>

Usable == live /\ ~panicked

\* the name of the last call, and whether the calls end in the given names
LastCall == IF hist = <<>> THEN "none" ELSE Last(hist)
EndsWith(names) ==
    /\ Len(hist) >= Len(names)
    /\ SubSeq(hist, Len(hist) - Len(names) + 1, Len(hist)) = names

\* the caller starts a document: the first one, or a second one right after
\* the first was built (and perhaps copied out)
MayStart ==
    ~live \/ (~panicked /\ docs < Len(budget) /\ LastCall \in {"Build", "CopyOut"})

\* a call that starts a document and leaves memory m
Starts(name, m) ==
    /\ Len(m.heap) <= MaxArrays
    /\ heap' = m.heap
    /\ obuf' = m.buf
    /\ live' = TRUE
    /\ docs' = docs + 1
    /\ calls' = 0
    /\ pres' = res
    /\ pret' = ret
    /\ res' = NilSlice
    /\ ret' = <<>>
    /\ stack' = CallNew
    /\ nest' = <<>>
    /\ hist' = Append(hist, name)
    /\ UNCHANGED <<cbuf, copy, budget, panicked, arg,
                   poolVars, otherVars>>

\* NewObject(buf) on the caller's buffer, or NewObject(b1) on the slice the
\* last Build returned
NewObject ==
    /\ MayStart
    /\ \/ Starts("NewObject", NewObjectMem(heap, cbuf))
       \/ /\ res.len > 0
          /\ Starts("NewObjectOnResult", NewObjectMem(heap, res))

\* obj.Reset()
Reset ==
    /\ live
    /\ MayStart
    /\ Starts("Reset", ResetMem(Mem))

\* json1 := string(b1): the caller copies the bytes of the last result
CopyOut ==
    /\ Usable
    /\ res.len > 0
    /\ LastCall = "Build"
    /\ copy' = View(heap, res)
    /\ hist' = Append(hist, "CopyOut")
    /\ UNCHANGED <<heap, cbuf, live, obuf, res, ret, pres, pret, docs, calls, budget,
                   panicked, stack, nest, arg,
                   poolVars, otherVars>>

Key ==
    Usable /\ \E k \in Keys : Does("Key", KeyMem(Mem, k), CallKey(stack, k), nest)

NullValue ==
    Usable /\ Does("NullValue", NullValueMem(Mem), CallValue(stack, NullText), nest)

Null ==
    Usable /\ \E k \in Keys :
        Does("Null", NullMem(Mem, k),
             CallValue(CallKey(stack, k), NullText), nest)

StringValue ==
    Usable /\ \E v \in Strings :
        Does("StringValue", StringValueMem(Mem, v),
             CallValue(stack, appendString(<<>>, v)), nest)

String ==
    Usable /\ \E k \in Keys, v \in Strings :
        Does("String", StringMem(Mem, k, v),
             CallValue(CallKey(stack, k), appendString(<<>>, v)), nest)

Int64Value ==
    Usable /\ \E v \in Ints :
        Does("Int64Value", Int64ValueMem(Mem, v),
             CallValue(stack, AppendInt(<<>>, v)), nest)

\* Int (the name Int is taken by the integers)
IntKV ==
    Usable /\ \E k \in Keys, v \in Ints :
        Does("Int", IntMem(Mem, k, v),
             CallValue(CallKey(stack, k), AppendInt(<<>>, v)), nest)

BoolValue ==
    Usable /\ \E v \in Bools :
        Does("BoolValue", BoolValueMem(Mem, v),
             CallValue(stack, AppendBool(<<>>, v)), nest)

Bool ==
    Usable /\ \E k \in Keys, v \in Bools :
        Does("Bool", BoolMem(Mem, k, v),
             CallValue(CallKey(stack, k), AppendBool(<<>>, v)), nest)

StartObject ==
    Usable /\ Does("StartObject", StartObjectMem(Mem), CallStart(stack, "obj"),
                   NestStart(nest, "obj"))

Object ==
    Usable /\ \E k \in Keys :
        Does("Object", ObjectMem(Mem, k),
             CallStart(CallKey(stack, k), "obj"), NestStart(nest, "obj"))

StartArray ==
    Usable /\ Does("StartArray", StartArrayMem(Mem), CallStart(stack, "arr"),
                   NestStart(nest, "arr"))

Array ==
    Usable /\ \E k \in Keys :
        Does("Array", ArrayMem(Mem, k),
             CallStart(CallKey(stack, k), "arr"), NestStart(nest, "arr"))

EndObject ==
    /\ Usable
    /\ IF obuf.len = 0 THEN Panics("EndObject")
       ELSE Does("EndObject", EndObjectMem(Mem), CallEnd(stack, "obj"),
                 NestEnd(nest, "obj"))

EndArray ==
    /\ Usable
    /\ IF obuf.len = 0 THEN Panics("EndArray")
       ELSE Does("EndArray", EndArrayMem(Mem), CallEnd(stack, "arr"),
                 NestEnd(nest, "arr"))

Build ==
    /\ Usable
    /\ IF obuf.len = 0 THEN Panics("Build")
       ELSE LET m == BuildMem(Mem)
            IN  /\ calls < budget[docs] + 1
                /\ Len(m.heap) <= MaxArrays
                /\ heap' = m.heap
                /\ obuf' = m.buf
                /\ res' = m.buf
                /\ ret' = Contents(m)
                /\ calls' = calls + 1
                /\ stack' = CallBuild(stack)
                /\ hist' = Append(hist, "Build")
                /\ UNCHANGED <<cbuf, live, pres, pret, copy, docs, budget, panicked,
                               nest, arg, poolVars, otherVars>>

Next ==
    \/ NewObject
    \/ Key
    \/ NullValue
    \/ Null
    \/ StringValue
    \/ String
    \/ Int64Value
    \/ IntKV
    \/ BoolValue
    \/ Bool
    \/ StartObject
    \/ Object
    \/ StartArray
    \/ Array
    \/ EndObject
    \/ EndArray
    \/ Build

Spec == Init /\ [][Next]_vars

(***************************************************************************)
(* One document, and what the caller may do once Build has returned it:   *)
(* any further call on the builder, or a fresh start on the same storage  *)
(* (NewObject or Reset) and a Build of the empty second document.         *)
(***************************************************************************)
InitAfterBuild == InitBuffers /\ budget = <<MaxCalls, 0>>

NextAfterBuild == Next \/ Reset

SpecAfterBuild == InitAfterBuild /\ [][NextAfterBuild]_vars

(***************************************************************************)
(* Two documents in a row on one storage: the caller makes a few calls on *)
(* each, may copy the first result out, and starts the second with        *)
(* NewObject on its buffer, NewObject on the first result, or Reset.       *)
(***************************************************************************)
InitReuse == InitBuffers /\ budget = <<MaxReuseCalls, MaxReuseCalls>>

NextReuse ==
    \/ NewObject
    \/ Reset
    \/ CopyOut
    \/ String
    \/ IntKV
    \/ Build

SpecReuse == InitReuse /\ [][NextReuse]_vars

(***************************************************************************)
(* One value: the caller constructs an object, makes one value call with  *)
(* an argument of its choice, and builds.                                  *)
(***************************************************************************)
\* the caller makes one call on its object, and builds
InitOne == InitBuffers /\ budget = <<1>>

\* all sequences over S of at most n elements
SeqsUpTo(S, n) == UNION {[1..k -> S] : k \in 0..n}

\* 1.23, 4.56, 0, -0.001, 1200 as float64 and 1.5 as float32
F1p23 == Finite(FALSE, Dec(<<49, 50, 51>>, 1), Dec(<<49, 50, 51>>, 1))
F4p56 == Finite(FALSE, Dec(<<52, 53, 54>>, 1), Dec(<<52, 53, 54>>, 1))
FZero == Finite(FALSE, Dec(<<>>, 0), Dec(<<>>, 0))
FNegMilli == Finite(TRUE, Dec(<<49>>, -2), Dec(<<49>>, -2))
F1200 == Finite(FALSE, Dec(<<49, 50>>, 4), Dec(<<49, 50>>, 4))
F1p5 == Finite(FALSE, Dec(<<49, 53>>, 1), Dec(<<49, 53>>, 1))
\* float32(1e11): the float32 nearest to 1e11 is 99999997952
F1e11 ==
    Finite(FALSE, Dec(<<57, 57, 57, 57, 57, 57, 57, 55, 57, 53, 50>>, 11),
           Dec(<<49>>, 12))

Floats64In == {NaN, PosInf, NegInf, F1p23, F4p56, FZero, FNegMilli, F1200}
Floats32In == {NaN, PosInf, NegInf, F1p5, F1e11}
Floats64Elems == {F1p23, NaN, F4p56, NegInf}
Floats32Elems == {F1p5, PosInf, F1e11}

\* a bare value call with argument v, the first call on the object
ValueCall(name, m, txt, v) ==
    /\ Usable
    /\ calls = 0
    /\ DoesUpTo(name, m, CallValue(stack, txt), nest,
                [v |-> v, keyed |-> FALSE, key |-> <<>>, at |-> obuf.len], MaxValueLen)

\* a keyed value call with argument v, the first call on the object
KeyedCall(name, k, m, txt, v) ==
    /\ Usable
    /\ calls = 0
    /\ DoesUpTo(name, m, CallValue(CallKey(stack, k), txt), nest,
                [v |-> v, keyed |-> TRUE, key |-> k, at |-> obuf.len], MaxValueLen)

Float64Value ==
    \E v \in Floats64In :
        ValueCall("Float64Value", Float64ValueMem(Mem, v), appendFloat(<<>>, v, 64), v)

Float64 ==
    \E k \in Keys, v \in Floats64In :
        KeyedCall("Float64", k, Float64Mem(Mem, k, v), appendFloat(<<>>, v, 64), v)

Float32Value ==
    \E v \in Floats32In :
        ValueCall("Float32Value", Float32ValueMem(Mem, v), appendFloat(<<>>, v, 64), v)

Float32 ==
    \E k \in Keys, v \in Floats32In :
        KeyedCall("Float32", k, Float32Mem(Mem, k, v), appendFloat(<<>>, v, 64), v)

Floats64Value ==
    \E v \in SeqsUpTo(Floats64Elems, MaxElems) :
        ValueCall("Floats64Value", Floats64ValueMem(Mem, v),
                  appendArray(<<>>, v, appendFloat64), v)

Floats64 ==
    \E k \in Keys, v \in SeqsUpTo(Floats64Elems, MaxElems) :
        KeyedCall("Floats64", k, Floats64Mem(Mem, k, v),
                  appendArray(<<>>, v, appendFloat64), v)

Floats32Value ==
    \E v \in SeqsUpTo(Floats32Elems, MaxElems) :
        ValueCall("Floats32Value", Floats32ValueMem(Mem, v),
                  appendArray(<<>>, v, appendFloat32), v)

Floats32 ==
    \E k \in Keys, v \in SeqsUpTo(Floats32Elems, MaxElems) :
        KeyedCall("Floats32", k, Floats32Mem(Mem, k, v),
                  appendArray(<<>>, v, appendFloat32), v)

(***************************************************************************)
(* One string: the caller constructs an object, gives one string of its   *)
(* choice as a key, as a bare value or as the value of a key, and builds. *)
(* The strings are made of a quote, a backslash, a newline, a control     *)
(* byte, a letter, the bytes of the two-byte character U+00E9 and of the  *)
(* three-byte character U+20A9, and a byte that never occurs in UTF-8.    *)
(***************************************************************************)
StringBytes == {QUOTE, BACKSLASH, 10, 31, 97, 195, 169, 226, 130, 255}
StringsIn == SeqsUpTo(StringBytes, MaxStrLen)

KeyOf ==
    /\ Usable
    /\ calls = 0
    /\ \E k \in StringsIn :
           DoesUpTo("Key", KeyMem(Mem, k), CallKey(stack, k), nest,
                    [v |-> k, keyed |-> FALSE, key |-> <<>>, at |-> obuf.len],
                    MaxValueLen)

StringValueOf ==
    /\ Usable
    /\ calls = 0
    /\ \E v \in StringsIn :
        ValueCall("StringValue", StringValueMem(Mem, v), appendString(<<>>, v), v)

StringOf ==
    /\ Usable
    /\ calls = 0
    /\ \E k \in Keys, v \in StringsIn :
        KeyedCall("String", k, StringMem(Mem, k, v), appendString(<<>>, v), v)

NextStrings ==
    \/ NewObject
    \/ Build
    \/ KeyOf
    \/ StringValueOf
    \/ StringOf

SpecStrings == InitOne /\ [][NextStrings]_vars

\* the integers of each type: the least and the greatest value of the type, 0,
\* -1 when the type is signed and the value with only the top bit set when it
\* is not, and one value in between
\* -9223372036854775808, -1, 0, 8, 9223372036854775807
IntIn ==
    {<<0, 0, 0, 0, 0, 0, 0, 128>>,
     <<255, 255, 255, 255, 255, 255, 255, 255>>,
     <<0, 0, 0, 0, 0, 0, 0, 0>>,
     <<8, 0, 0, 0, 0, 0, 0, 0>>,
     <<255, 255, 255, 255, 255, 255, 255, 127>>}
\* -128, -1, 0, 7, 127
Int8In ==
    {<<128>>, <<255>>, <<0>>, <<7>>, <<127>>}
\* -32768, -1, 0, 300, 32767
Int16In ==
    {<<0, 128>>, <<255, 255>>, <<0, 0>>, <<44, 1>>, <<255, 127>>}
\* -2147483648, -1, 0, 100000, 2147483647
Int32In ==
    {<<0, 0, 0, 128>>,
     <<255, 255, 255, 255>>,
     <<0, 0, 0, 0>>,
     <<160, 134, 1, 0>>,
     <<255, 255, 255, 127>>}
\* -9223372036854775808, -1, 0, 1234567890123, 9223372036854775807
Int64In ==
    {<<0, 0, 0, 0, 0, 0, 0, 128>>,
     <<255, 255, 255, 255, 255, 255, 255, 255>>,
     <<0, 0, 0, 0, 0, 0, 0, 0>>,
     <<203, 4, 251, 113, 31, 1, 0, 0>>,
     <<255, 255, 255, 255, 255, 255, 255, 127>>}
\* 0, 10, 9223372036854775808, 18446744073709551615
UintIn ==
    {<<0, 0, 0, 0, 0, 0, 0, 0>>,
     <<10, 0, 0, 0, 0, 0, 0, 0>>,
     <<0, 0, 0, 0, 0, 0, 0, 128>>,
     <<255, 255, 255, 255, 255, 255, 255, 255>>}
\* 0, 9, 128, 255
Uint8In ==
    {<<0>>, <<9>>, <<128>>, <<255>>}
\* 0, 1000, 32768, 65535
Uint16In ==
    {<<0, 0>>, <<232, 3>>, <<0, 128>>, <<255, 255>>}
\* 0, 70000, 2147483648, 4294967295
Uint32In ==
    {<<0, 0, 0, 0>>,
     <<112, 17, 1, 0>>,
     <<0, 0, 0, 128>>,
     <<255, 255, 255, 255>>}
\* 0, 5000000000, 9223372036854775808, 18446744073709551615
Uint64In ==
    {<<0, 0, 0, 0, 0, 0, 0, 0>>,
     <<0, 242, 5, 42, 1, 0, 0, 0>>,
     <<0, 0, 0, 0, 0, 0, 0, 128>>,
     <<255, 255, 255, 255, 255, 255, 255, 255>>}
\* the integers given as elements: the least and the greatest value of the type
\* and the one in between
IntsElems ==
    {<<0, 0, 0, 0, 0, 0, 0, 128>>,
     <<8, 0, 0, 0, 0, 0, 0, 0>>,
     <<255, 255, 255, 255, 255, 255, 255, 127>>}
Ints8Elems == {<<128>>, <<7>>, <<127>>}
Ints16Elems == {<<0, 128>>, <<44, 1>>, <<255, 127>>}
Ints32Elems ==
    {<<0, 0, 0, 128>>,
     <<160, 134, 1, 0>>,
     <<255, 255, 255, 127>>}
Ints64Elems ==
    {<<0, 0, 0, 0, 0, 0, 0, 128>>,
     <<203, 4, 251, 113, 31, 1, 0, 0>>,
     <<255, 255, 255, 255, 255, 255, 255, 127>>}
UintsElems ==
    {<<0, 0, 0, 0, 0, 0, 0, 0>>,
     <<10, 0, 0, 0, 0, 0, 0, 0>>,
     <<255, 255, 255, 255, 255, 255, 255, 255>>}
Uints8Elems == {<<0>>, <<9>>, <<255>>}
Uints16Elems == {<<0, 0>>, <<232, 3>>, <<255, 255>>}
Uints32Elems ==
    {<<0, 0, 0, 0>>,
     <<112, 17, 1, 0>>,
     <<255, 255, 255, 255>>}
Uints64Elems ==
    {<<0, 0, 0, 0, 0, 0, 0, 0>>,
     <<0, 242, 5, 42, 1, 0, 0, 0>>,
     <<255, 255, 255, 255, 255, 255, 255, 255>>}

\* the durations 0, 1ns, 1.5us, 1.5ms, 1.5s, 5m0s, -2h46m40s, and the least and
\* the greatest Duration
DurationsIn ==
    {<<0, 0, 0, 0, 0, 0, 0, 0>>,
     <<1, 0, 0, 0, 0, 0, 0, 0>>,
     <<220, 5, 0, 0, 0, 0, 0, 0>>,
     <<96, 227, 22, 0, 0, 0, 0, 0>>,
     <<0, 47, 104, 89, 0, 0, 0, 0>>,
     <<0, 184, 100, 217, 69, 0, 0, 0>>,
     <<0, 96, 141, 177, 231, 246, 255, 255>>,
     <<0, 0, 0, 0, 0, 0, 0, 128>>,
     <<255, 255, 255, 255, 255, 255, 255, 127>>}
\* the durations given as elements: 5m0s, 1.5us and -2h46m40s
DurationsElems ==
    {<<0, 184, 100, 217, 69, 0, 0, 0>>,
     <<220, 5, 0, 0, 0, 0, 0, 0>>,
     <<0, 96, 141, 177, 231, 246, 255, 255>>}
\* the strings given as elements: x, a quote, and a byte that is no UTF-8
StringsElems == {<<120>>, <<QUOTE>>, <<255>>}
BoolsIn == {TRUE, FALSE}

\* the text of the elements vals, each written by appendFn, as a JSON array
ArrayText(vals, appendFn(_, _)) == appendArray(<<>>, vals, appendFn)
appendInt64(buf, v) == AppendInt(buf, Int64Of(v))
appendUint64(buf, v) == AppendUint(buf, Uint64Of(v))

IntValue ==
    \E v \in IntIn :
        ValueCall("IntValue", IntValueMem(Mem, v), appendInt64(<<>>, v), v)

IntOf ==
    \E k \in Keys, v \in IntIn :
        KeyedCall("Int", k, IntMem(Mem, k, v), appendInt64(<<>>, v), v)

IntsValue ==
    \E v \in SeqsUpTo(IntsElems, MaxElems) :
        ValueCall("IntsValue", IntsValueMem(Mem, v), ArrayText(v, appendInt64), v)

IntsOf ==
    \E k \in Keys, v \in SeqsUpTo(IntsElems, MaxElems) :
        KeyedCall("Ints", k, IntsMem(Mem, k, v), ArrayText(v, appendInt64), v)

Int8Value ==
    \E v \in Int8In :
        ValueCall("Int8Value", Int8ValueMem(Mem, v), appendInt64(<<>>, v), v)

Int8 ==
    \E k \in Keys, v \in Int8In :
        KeyedCall("Int8", k, Int8Mem(Mem, k, v), appendInt64(<<>>, v), v)

Ints8Value ==
    \E v \in SeqsUpTo(Ints8Elems, MaxElems) :
        ValueCall("Ints8Value", Ints8ValueMem(Mem, v), ArrayText(v, appendInt64), v)

Ints8 ==
    \E k \in Keys, v \in SeqsUpTo(Ints8Elems, MaxElems) :
        KeyedCall("Ints8", k, Ints8Mem(Mem, k, v), ArrayText(v, appendInt64), v)

Int16Value ==
    \E v \in Int16In :
        ValueCall("Int16Value", Int16ValueMem(Mem, v), appendInt64(<<>>, v), v)

Int16 ==
    \E k \in Keys, v \in Int16In :
        KeyedCall("Int16", k, Int16Mem(Mem, k, v), appendInt64(<<>>, v), v)

Ints16Value ==
    \E v \in SeqsUpTo(Ints16Elems, MaxElems) :
        ValueCall("Ints16Value", Ints16ValueMem(Mem, v), ArrayText(v, appendInt64), v)

Ints16 ==
    \E k \in Keys, v \in SeqsUpTo(Ints16Elems, MaxElems) :
        KeyedCall("Ints16", k, Ints16Mem(Mem, k, v), ArrayText(v, appendInt64), v)

Int32Value ==
    \E v \in Int32In :
        ValueCall("Int32Value", Int32ValueMem(Mem, v), appendInt64(<<>>, v), v)

Int32 ==
    \E k \in Keys, v \in Int32In :
        KeyedCall("Int32", k, Int32Mem(Mem, k, v), appendInt64(<<>>, v), v)

Ints32Value ==
    \E v \in SeqsUpTo(Ints32Elems, MaxElems) :
        ValueCall("Ints32Value", Ints32ValueMem(Mem, v), ArrayText(v, appendInt64), v)

Ints32 ==
    \E k \in Keys, v \in SeqsUpTo(Ints32Elems, MaxElems) :
        KeyedCall("Ints32", k, Ints32Mem(Mem, k, v), ArrayText(v, appendInt64), v)

Int64ValueOf ==
    \E v \in Int64In :
        ValueCall("Int64Value", Int64ValueMem(Mem, v), appendInt64(<<>>, v), v)

Int64 ==
    \E k \in Keys, v \in Int64In :
        KeyedCall("Int64", k, Int64Mem(Mem, k, v), appendInt64(<<>>, v), v)

Ints64Value ==
    \E v \in SeqsUpTo(Ints64Elems, MaxElems) :
        ValueCall("Ints64Value", Ints64ValueMem(Mem, v), ArrayText(v, appendInt64), v)

Ints64 ==
    \E k \in Keys, v \in SeqsUpTo(Ints64Elems, MaxElems) :
        KeyedCall("Ints64", k, Ints64Mem(Mem, k, v), ArrayText(v, appendInt64), v)

UintValue ==
    \E v \in UintIn :
        ValueCall("UintValue", UintValueMem(Mem, v), appendUint64(<<>>, v), v)

Uint ==
    \E k \in Keys, v \in UintIn :
        KeyedCall("Uint", k, UintMem(Mem, k, v), appendUint64(<<>>, v), v)

UintsValue ==
    \E v \in SeqsUpTo(UintsElems, MaxElems) :
        ValueCall("UintsValue", UintsValueMem(Mem, v), ArrayText(v, appendUint64), v)

Uints ==
    \E k \in Keys, v \in SeqsUpTo(UintsElems, MaxElems) :
        KeyedCall("Uints", k, UintsMem(Mem, k, v), ArrayText(v, appendUint64), v)

Uint8Value ==
    \E v \in Uint8In :
        ValueCall("Uint8Value", Uint8ValueMem(Mem, v), appendUint64(<<>>, v), v)

Uint8 ==
    \E k \in Keys, v \in Uint8In :
        KeyedCall("Uint8", k, Uint8Mem(Mem, k, v), appendUint64(<<>>, v), v)

Uints8Value ==
    \E v \in SeqsUpTo(Uints8Elems, MaxElems) :
        ValueCall("Uints8Value", Uints8ValueMem(Mem, v), ArrayText(v, appendUint64), v)

Uints8 ==
    \E k \in Keys, v \in SeqsUpTo(Uints8Elems, MaxElems) :
        KeyedCall("Uints8", k, Uints8Mem(Mem, k, v), ArrayText(v, appendUint64), v)

Uint16Value ==
    \E v \in Uint16In :
        ValueCall("Uint16Value", Uint16ValueMem(Mem, v), appendUint64(<<>>, v), v)

Uint16 ==
    \E k \in Keys, v \in Uint16In :
        KeyedCall("Uint16", k, Uint16Mem(Mem, k, v), appendUint64(<<>>, v), v)

Uints16Value ==
    \E v \in SeqsUpTo(Uints16Elems, MaxElems) :
        ValueCall("Uints16Value", Uints16ValueMem(Mem, v), ArrayText(v, appendUint64), v)

Uints16 ==
    \E k \in Keys, v \in SeqsUpTo(Uints16Elems, MaxElems) :
        KeyedCall("Uints16", k, Uints16Mem(Mem, k, v), ArrayText(v, appendUint64), v)

Uint32Value ==
    \E v \in Uint32In :
        ValueCall("Uint32Value", Uint32ValueMem(Mem, v), appendUint64(<<>>, v), v)

Uint32 ==
    \E k \in Keys, v \in Uint32In :
        KeyedCall("Uint32", k, Uint32Mem(Mem, k, v), appendUint64(<<>>, v), v)

Uints32Value ==
    \E v \in SeqsUpTo(Uints32Elems, MaxElems) :
        ValueCall("Uints32Value", Uints32ValueMem(Mem, v), ArrayText(v, appendUint64), v)

Uints32 ==
    \E k \in Keys, v \in SeqsUpTo(Uints32Elems, MaxElems) :
        KeyedCall("Uints32", k, Uints32Mem(Mem, k, v), ArrayText(v, appendUint64), v)

Uint64Value ==
    \E v \in Uint64In :
        ValueCall("Uint64Value", Uint64ValueMem(Mem, v), appendUint64(<<>>, v), v)

Uint64 ==
    \E k \in Keys, v \in Uint64In :
        KeyedCall("Uint64", k, Uint64Mem(Mem, k, v), appendUint64(<<>>, v), v)

Uints64Value ==
    \E v \in SeqsUpTo(Uints64Elems, MaxElems) :
        ValueCall("Uints64Value", Uints64ValueMem(Mem, v), ArrayText(v, appendUint64), v)

Uints64 ==
    \E k \in Keys, v \in SeqsUpTo(Uints64Elems, MaxElems) :
        KeyedCall("Uints64", k, Uints64Mem(Mem, k, v), ArrayText(v, appendUint64), v)

NullValueOf == ValueCall("NullValue", NullValueMem(Mem), NullText, <<>>)

NullOf == \E k \in Keys : KeyedCall("Null", k, NullMem(Mem, k), NullText, <<>>)

BoolValueOf ==
    \E v \in BoolsIn : ValueCall("BoolValue", BoolValueMem(Mem, v), AppendBool(<<>>, v), v)

BoolOf ==
    \E k \in Keys, v \in BoolsIn :
        KeyedCall("Bool", k, BoolMem(Mem, k, v), AppendBool(<<>>, v), v)

BoolsValue ==
    \E v \in SeqsUpTo(BoolsIn, MaxElems) :
        ValueCall("BoolsValue", BoolsValueMem(Mem, v), ArrayText(v, AppendBool), v)

BoolsOf ==
    \E k \in Keys, v \in SeqsUpTo(BoolsIn, MaxElems) :
        KeyedCall("Bools", k, BoolsMem(Mem, k, v), ArrayText(v, AppendBool), v)

\* the strings given as values: the empty one, x, a quote, U+00E9, and a byte
\* that is no UTF-8
StringValuesIn == {<<>>, <<120>>, <<QUOTE>>, <<195, 169>>, <<255>>}

StringValueCall ==
    \E v \in StringValuesIn :
        ValueCall("StringValue", StringValueMem(Mem, v), appendString(<<>>, v), v)

StringCall ==
    \E k \in Keys, v \in StringValuesIn :
        KeyedCall("String", k, StringMem(Mem, k, v), appendString(<<>>, v), v)

StringsValue ==
    \E v \in SeqsUpTo(StringsElems, MaxElems) :
        ValueCall("StringsValue", StringsValueMem(Mem, v), ArrayText(v, appendString), v)

StringsOf ==
    \E k \in Keys, v \in SeqsUpTo(StringsElems, MaxElems) :
        KeyedCall("Strings", k, StringsMem(Mem, k, v), ArrayText(v, appendString), v)

DurationValue ==
    \E v \in DurationsIn :
        ValueCall("DurationValue", DurationValueMem(Mem, v), appendDuration(<<>>, v), v)

Duration ==
    \E k \in Keys, v \in DurationsIn :
        KeyedCall("Duration", k, DurationMem(Mem, k, v), appendDuration(<<>>, v), v)

DurationsValue ==
    \E v \in SeqsUpTo(DurationsElems, MaxElems) :
        ValueCall("DurationsValue", DurationsValueMem(Mem, v),
                  ArrayText(v, appendDuration), v)

Durations ==
    \E k \in Keys, v \in SeqsUpTo(DurationsElems, MaxElems) :
        KeyedCall("Durations", k, DurationsMem(Mem, k, v),
                  ArrayText(v, appendDuration), v)

\* Object(key) and Array(key), the first call on the object
ObjectOf ==
    /\ Usable
    /\ calls = 0
    /\ \E k \in Keys :
           DoesUpTo("Object", ObjectMem(Mem, k), CallStart(CallKey(stack, k), "obj"),
                    NestStart(nest, "obj"),
                    [v |-> <<>>, keyed |-> TRUE, key |-> k, at |-> obuf.len], MaxValueLen)

ArrayOf ==
    /\ Usable
    /\ calls = 0
    /\ \E k \in Keys :
           DoesUpTo("Array", ArrayMem(Mem, k), CallStart(CallKey(stack, k), "arr"),
                    NestStart(nest, "arr"),
                    [v |-> <<>>, keyed |-> TRUE, key |-> k, at |-> obuf.len], MaxValueLen)

\* 2024-03-09 07:05:02 and the reference time 2006-01-02 15:04:05
TimesIn == {Date(2024, 3, 9, 69, 7, 5, 2), Date(2006, 1, 2, 2, 15, 4, 5)}
\* 2006-01-02, 15:04, 3:04, the empty layout, and the layouts
\* made of one quote, one backslash, one newline, one byte that is no UTF-8
LayoutsIn ==
    {<<50, 48, 48, 54, 45, 48, 49, 45, 48, 50>>, <<49, 53, 58, 48, 52>>,
     <<51, 58, 48, 52>>, <<>>,
     <<QUOTE>>, <<BACKSLASH>>, <<10>>, <<255>>}
\* the text of the times vals in the layout format, as a JSON array
TimesText(vals, format) ==
    LET appendOne(buf, v) == appendTime(buf, v, format)
    IN  appendArray(<<>>, vals, appendOne)

TimeValue ==
    \E v \in TimesIn, f \in LayoutsIn :
        ValueCall("TimeValue", TimeValueMem(Mem, v, f), appendTime(<<>>, v, f),
                  [t |-> v, format |-> f])

Time ==
    \E k \in Keys, v \in TimesIn, f \in LayoutsIn :
        KeyedCall("Time", k, TimeMem(Mem, k, v, f), appendTime(<<>>, v, f),
                  [t |-> v, format |-> f])

TimesValue ==
    \E v \in SeqsUpTo(TimesIn, MaxElems), f \in LayoutsIn :
        ValueCall("TimesValue", TimesValueMem(Mem, v, f), TimesText(v, f),
                  [t |-> v, format |-> f])

Times ==
    \E k \in Keys, v \in SeqsUpTo(TimesIn, MaxElems), f \in LayoutsIn :
        KeyedCall("Times", k, TimesMem(Mem, k, v, f), TimesText(v, f),
                  [t |-> v, format |-> f])

NextValues ==
    \/ NewObject
    \/ Build
    \/ TimeValue
    \/ Time
    \/ TimesValue
    \/ Times
    \/ Float64Value
    \/ Float64
    \/ Float32Value
    \/ Float32
    \/ Floats64Value
    \/ Floats64
    \/ Floats32Value
    \/ Floats32
    \/ IntValue
    \/ IntOf
    \/ IntsValue
    \/ IntsOf
    \/ Int8Value
    \/ Int8
    \/ Ints8Value
    \/ Ints8
    \/ Int16Value
    \/ Int16
    \/ Ints16Value
    \/ Ints16
    \/ Int32Value
    \/ Int32
    \/ Ints32Value
    \/ Ints32
    \/ Int64ValueOf
    \/ Int64
    \/ Ints64Value
    \/ Ints64
    \/ UintValue
    \/ Uint
    \/ UintsValue
    \/ Uints
    \/ Uint8Value
    \/ Uint8
    \/ Uints8Value
    \/ Uints8
    \/ Uint16Value
    \/ Uint16
    \/ Uints16Value
    \/ Uints16
    \/ Uint32Value
    \/ Uint32
    \/ Uints32Value
    \/ Uints32
    \/ Uint64Value
    \/ Uint64
    \/ Uints64Value
    \/ Uints64
    \/ NullValueOf
    \/ NullOf
    \/ BoolValueOf
    \/ BoolOf
    \/ BoolsValue
    \/ BoolsOf
    \/ StringValueCall
    \/ StringCall
    \/ StringsValue
    \/ StringsOf
    \/ DurationValue
    \/ Duration
    \/ DurationsValue
    \/ Durations
    \/ ObjectOf
    \/ ArrayOf

SpecValues == InitOne /\ [][NextValues]_vars

\* the bytes seen through the slice the last Build returned
Result == View(heap, res)
\* the bytes seen now through the slice the previous document's Build returned
PrevResult == View(heap, pres)

(***************************************************************************)
(* The two documents the specification builds as examples, computed by    *)
(* the builder's operations on a caller buffer that is too small for them. *)
(***************************************************************************)
ExampleStart == NewObjectMem(<<[i \in 1..SmallCap |-> JUNK]>>, Slice(1, SmallCap, SmallCap))

KeyHello == <<104, 101, 108, 108, 111>>
KeyBool == <<98, 111, 111, 108>>
KeyObj == <<111, 98, 106>>
KeyFoo == <<102, 111, 111>>
KeyInt == <<105, 110, 116>>
KeyPeople == <<112, 101, 111, 112, 108, 101>>
KeyName == <<110, 97, 109, 101>>
KeyAge == <<97, 103, 101>>

\* String(hello,world).Bool(bool,true).Object(obj).String(foo,bar)
\*   .Bool(bool,false).Int(int,8).EndObject().Build()
HelloWorld == StringMem(ExampleStart, KeyHello, <<119, 111, 114, 108, 100>>)
HelloBool == BoolMem(HelloWorld, KeyBool, TRUE)
HelloObj == ObjectMem(HelloBool, KeyObj)
HelloFoo == StringMem(HelloObj, KeyFoo, <<98, 97, 114>>)
HelloObjBool == BoolMem(HelloFoo, KeyBool, FALSE)
HelloInt == IntMem(HelloObjBool, KeyInt, IntLit(8))
HelloDocument == Contents(BuildMem(EndObjectMem(HelloInt)))

\* {"hello":"world","bool":true,"obj":{"foo":"bar","bool":false,"int":8}}
HelloText ==
    <<123, 34, 104, 101, 108, 108, 111, 34, 58, 34, 119, 111, 114, 108, 100, 34, 44,
      34, 98, 111, 111, 108, 34, 58, 116, 114, 117, 101, 44, 34, 111, 98, 106, 34, 58,
      123, 34, 102, 111, 111, 34, 58, 34, 98, 97, 114, 34, 44, 34, 98, 111, 111, 108,
      34, 58, 102, 97, 108, 115, 101, 44, 34, 105, 110, 116, 34, 58, 56, 125, 125>>

\* Array(people).StartObject().String(name,Alice).Int(age,28).EndObject()
\*   .StartObject().String(name,Bob).Int(age,32).EndObject().EndArray().Build()
PeopleArray == ArrayMem(ExampleStart, KeyPeople)
PeopleAlice == StringMem(StartObjectMem(PeopleArray), KeyName, <<65, 108, 105, 99, 101>>)
PeopleAliceAge == IntMem(PeopleAlice, KeyAge, IntLit(28))
PeopleBob ==
    StringMem(StartObjectMem(EndObjectMem(PeopleAliceAge)), KeyName, <<66, 111, 98>>)
PeopleBobAge == IntMem(PeopleBob, KeyAge, IntLit(32))
PeopleDocument == Contents(BuildMem(EndArrayMem(EndObjectMem(PeopleBobAge))))

\* {"people":[{"name":"Alice","age":28},{"name":"Bob","age":32}]}
PeopleText ==
    <<123, 34, 112, 101, 111, 112, 108, 101, 34, 58, 91, 123, 34, 110, 97, 109, 101,
      34, 58, 34, 65, 108, 105, 99, 101, 34, 44, 34, 97, 103, 101, 34, 58, 50, 56,
      125, 44, 123, 34, 110, 97, 109, 101, 34, 58, 34, 66, 111, 98, 34, 44, 34, 97,
      103, 101, 34, 58, 51, 50, 125, 93, 125>>

EmptyObjectText == <<LBRACE, RBRACE>>

(***************************************************************************)
(* What the claims speak of.                                               *)
(***************************************************************************)
\* the calls made on the current document form a well-formed sequence
WellFormed == stack # Malformed
\* Build has just returned the document of a well-formed, closed sequence
BuiltWellFormed == LastCall = "Build" /\ WellFormed
\* the number of the given byte in a text
RECURSIVE Count(_, _)
Count(s, c) ==
    IF s = <<>> THEN 0 ELSE (IF s[1] = c THEN 1 ELSE 0) + Count(Tail(s), c)
\* the last n bytes of a text
Suffix(s, n) == SubSeq(s, Len(s) - n + 1, Len(s))
\* the calls that add one scalar member to an object
MemberCalls == {"Null", "String", "Int", "Bool"}

C3_EmptyObject ==
    (EndsWith(<<"NewObject", "Build">>) \/ EndsWith(<<"NewObjectOnResult", "Build">>))
        => Result = EmptyObjectText

\* the empty object has been built in a buffer that was full of other bytes
C3_Witness ==
    /\ hist = <<"NewObject", "Build">>
    /\ cbuf.len = SmallCap
    /\ SmallCap > 0

(***************************************************************************)
(* C4: a container that is closed right after it was opened, at any depth *)
(* and after any calls, is {} or [] with no comma inside it, and          *)
(* Object(x).EndObject().Build() is {"x":{}}, Array(x).EndArray().Build()  *)
(* is {"x":[]}.                                                            *)
(***************************************************************************)
C4_EmptyNested ==
    /\ (EndsWith(<<"Object", "EndObject">>) \/ EndsWith(<<"StartObject", "EndObject">>))
          => Suffix(Contents(Mem), 3) = <<LBRACE, RBRACE, COMMA>>
    /\ (EndsWith(<<"Array", "EndArray">>) \/ EndsWith(<<"StartArray", "EndArray">>))
          => Suffix(Contents(Mem), 3) = <<LBRACKET, RBRACKET, COMMA>>
    /\ hist = <<"NewObject", "Object", "EndObject", "Build">>
          => Result = <<123, 34, 97, 34, 58, 123, 125, 125>>
    /\ hist = <<"NewObject", "Array", "EndArray", "Build">>
          => Result = <<123, 34, 97, 34, 58, 91, 93, 125>>

\* an empty array has been closed at depth two
C4_Witness ==
    /\ EndsWith(<<"StartArray", "EndArray">>)
    /\ WellFormed
    /\ Len(stack) = 2

(***************************************************************************)
(* C5: after N >= 1 scalar members were added to the top-level object     *)
(* (keys and values without commas), the text Build returns has exactly   *)
(* N-1 commas, and the byte before the final } is not a comma.            *)
(***************************************************************************)
C5_Commas ==
    (/\ LastCall = "Build"
     /\ Len(hist) >= 3
     /\ hist[1] = "NewObject"
     /\ \A i \in 2..(Len(hist) - 1) : hist[i] \in MemberCalls)
    => /\ Count(Result, COMMA) = Len(hist) - 3
       /\ Last(Result) = RBRACE
       /\ Result[Len(Result) - 1] # COMMA

\* three scalar members have been built
C5_Witness ==
    /\ LastCall = "Build"
    /\ Len(hist) = 5
    /\ \A i \in 2..4 : hist[i] \in MemberCalls
    /\ Count(Result, COMMA) = 2

\* the calls that write to the buffer of a builder, by the names hist gives them
Mutators ==
    {"Key", "NullValue", "Null", "StringValue", "String", "Int64Value", "Int",
     "BoolValue", "Bool", "StartObject", "Object", "StartArray", "Array",
     "EndObject", "EndArray"}
\* the calls that start a document
StartCalls == {"NewObject", "NewObjectOnResult", "Reset"}
\* the index in hist of the last Build (0: none)
LastBuildAt ==
    IF \E i \in 1..Len(hist) : hist[i] = "Build"
    THEN CHOOSE i \in 1..Len(hist) :
            hist[i] = "Build" /\ \A j \in (i + 1)..Len(hist) : hist[j] # "Build"
    ELSE 0
\* the index in hist of the call that started the second document (0: none)
SecondStartAt ==
    IF docs = 2 THEN CHOOSE i \in 2..Len(hist) : hist[i] \in StartCalls ELSE 0
\* the call that started the second document
SecondStart == IF docs = 2 THEN hist[SecondStartAt] ELSE "none"
\* the second document has been built
SecondBuilt == docs = 2 /\ LastCall = "Build"

(***************************************************************************)
(* C6 (as stated): after Build has returned a slice, any mutating call on *)
(* the builder (Key, a Value, a Start, an End), and NewObject or Reset on *)
(* the same storage, changes the bytes seen through that slice.           *)
(***************************************************************************)
C6_AnyCallChangesResult ==
    /\ (Len(hist) >= 2 /\ hist[Len(hist) - 1] = "Build" /\ LastCall \in Mutators)
       => Result # ret
    /\ (Len(hist) >= 2 /\ hist[Len(hist) - 1] = "Build" /\ LastCall \in StartCalls)
       => PrevResult # pret

(***************************************************************************)
(* C6 (amended): after Build has returned a slice, the calls made on the  *)
(* builder change the bytes seen through that slice only when the first   *)
(* of them is EndArray, which turns the last byte of the slice from }     *)
(* into ].  Key, every Value, Start and keyed call writes past the end of *)
(* the slice, EndObject rewrites its last byte with the same }, and       *)
(* NewObject or Reset on the same storage writes { over its first byte,   *)
(* which is { already unless an End call had overwritten it.              *)
(***************************************************************************)
C6_OnlyEndArrayChangesResult ==
    /\ (/\ LastBuildAt > 0
        /\ LastBuildAt < Len(hist)
        /\ \A j \in (LastBuildAt + 1)..Len(hist) : hist[j] \in Mutators)
       => Result = IF hist[LastBuildAt + 1] = "EndArray"
                   THEN [ret EXCEPT ![Len(ret)] = RBRACKET]
                   ELSE ret
    /\ (Len(hist) >= 2 /\ hist[Len(hist) - 1] = "Build" /\ LastCall \in StartCalls)
       => PrevResult = IF obuf.arr = pres.arr
                       THEN [pret EXCEPT ![1] = LBRACE]
                       ELSE pret

\* Key has written to the storage of the slice that Build returned before it
C6_Witness ==
    /\ EndsWith(<<"Build", "Key">>)
    /\ obuf.arr = res.arr
    /\ obuf.len > res.len

(***************************************************************************)
(* C7 (as stated): when two objects are built one after the other with    *)
(* NewObject on the same buffer, the first result slice no longer holds   *)
(* the first document.                                                     *)
(***************************************************************************)
C7_FirstResultLost ==
    (SecondBuilt /\ SecondStart = "NewObject") => PrevResult # pret

(***************************************************************************)
(* C7 (amended): when two objects are built one after the other with      *)
(* NewObject on the same buffer, and the first document fit in the        *)
(* capacity of the buffer, the second build writes over the array of the  *)
(* first result slice: every byte of that slice holds the byte of the     *)
(* second result at its index, or still its old byte where the second     *)
(* build wrote nothing in that array (the second document is shorter, or  *)
(* it outgrew the buffer and went on in a new array).  When the first     *)
(* document outgrew the buffer, it is in an array of its own and the      *)
(* first result slice still holds it.                                      *)
(***************************************************************************)
C7_SecondBuildOverwrites ==
    (SecondBuilt /\ SecondStart = "NewObject") =>
        IF pres.len > cbuf.cap THEN PrevResult = pret
        ELSE IF res.len <= cbuf.cap
        THEN \A i \in 1..pres.len :
                PrevResult[i] = IF i <= res.len THEN Result[i] ELSE pret[i]
        ELSE \E k \in 0..pres.len : \A i \in 1..pres.len :
                PrevResult[i] = IF i <= k THEN Result[i] ELSE pret[i]

\* the first result slice holds bytes of a different second document
C7_Witness ==
    /\ SecondBuilt
    /\ SecondStart = "NewObject"
    /\ PrevResult # pret
    /\ JsonValid(pret)
    /\ ~JsonValid(PrevResult)

(***************************************************************************)
(* C8: NewObject resets the buffer it is given: after the first result    *)
(* was copied out, a second object built with NewObject on the storage of *)
(* the first result (or on the caller's buffer) leaves the copy equal to  *)
(* the first document and returns exactly the second document.            *)
(***************************************************************************)
C8_ReuseAfterCopy ==
    (/\ SecondBuilt
     /\ SecondStart \in {"NewObject", "NewObjectOnResult"}
     /\ hist[SecondStartAt - 1] = "CopyOut"
     /\ \A i \in SecondStartAt..Len(hist) : hist[i] # "CopyOut")
    => /\ copy = pret
       /\ WellFormed => Result = Top(stack).text

\* a second, different document has been built on the storage of the first
C8_Witness ==
    /\ SecondBuilt
    /\ SecondStart = "NewObjectOnResult"
    /\ WellFormed
    /\ res.arr = pres.arr
    /\ hist[SecondStartAt - 1] = "CopyOut"
    /\ \A i \in SecondStartAt..Len(hist) : hist[i] # "CopyOut"
    /\ copy = pret
    /\ Len(copy) > 2
    /\ Result # copy
    /\ Top(stack).n >= 1

(***************************************************************************)
(* C9: after Build, Reset leaves the buffer as exactly the byte {, and    *)
(* the calls that follow, ended by Build, return exactly the second       *)
(* document.                                                               *)
(***************************************************************************)
C9_Reset ==
    /\ LastCall = "Reset" => Contents(Mem) = <<LBRACE>>
    /\ (SecondBuilt /\ SecondStart = "Reset" /\ WellFormed)
       => Result = Top(stack).text

\* a second document with a member has been built after Reset
C9_Witness ==
    /\ SecondBuilt
    /\ SecondStart = "Reset"
    /\ WellFormed
    /\ Top(stack).n >= 1
    /\ Len(pret) > 2
    /\ Result # pret

(***************************************************************************)
(* C10: no sequence of builder calls, misordered or not, indexes an empty *)
(* buffer: the buffer of a constructed builder always holds a byte.       *)
(***************************************************************************)
C10_NeverPanics == ~panicked /\ (live => obuf.len >= 1)

\* unbalanced End calls and Build have read the last byte
C10_Witness ==
    /\ EndsWith(<<"EndArray", "EndObject", "Build">>)
    /\ nest = Unpaired
    /\ ~panicked

\* the structure calls of a sequence of calls, read from call i on with the
\* containers in open being open: "underflow" when an End call finds nothing
\* open, "wrong" when it finds a container of the other kind, "open" when a
\* container is left open at the end, "balanced" otherwise
RECURSIVE Structure(_, _, _)
Structure(h, i, open) ==
    IF i > Len(h) THEN (IF open = <<>> THEN "balanced" ELSE "open")
    ELSE IF h[i] \in {"StartObject", "Object"} THEN Structure(h, i + 1, Append(open, "obj"))
    ELSE IF h[i] \in {"StartArray", "Array"} THEN Structure(h, i + 1, Append(open, "arr"))
    ELSE IF h[i] \in {"EndObject", "EndArray"} THEN
        IF open = <<>> THEN "underflow"
        ELSE IF Last(open) # (IF h[i] = "EndObject" THEN "obj" ELSE "arr") THEN "wrong"
        ELSE Structure(h, i + 1, Pop(open))
    ELSE Structure(h, i + 1, open)
\* Build has been called once, as the last call
BuiltOnce == LastCall = "Build" /\ \A i \in 1..(Len(hist) - 1) : hist[i] # "Build"

Appended == SubSeq(Contents(Mem), arg.at + 1, obuf.len)
KeyText == IF arg.keyed THEN appendString(<<>>, arg.key) \o <<COLON>> ELSE <<>>
ValueText == SubSeq(Appended, Len(KeyText) + 1, Len(Appended) - 1)
Framed ==
    /\ Len(Appended) > Len(KeyText) + 1
    /\ SubSeq(Appended, 1, Len(KeyText)) = KeyText
    /\ Last(Appended) = COMMA
Quoted(s) == <<QUOTE>> \o s \o <<QUOTE>>
IsJsonNumber(s) == s # <<>> /\ ScanNumber(s, 1) = Len(s) + 1
IsJsonString(s) == s # <<>> /\ ScanString(s, 1) = Len(s) + 1
\* the texts of the elements of the JSON array s (<<>> if s is no array)
RECURSIVE ElementsFrom(_, _)
ElementsFrom(s, i) ==
    LET v == ScanValue(s, i)
    IN  IF v = 0 THEN <<>>
        ELSE IF At(s, v) = COMMA THEN <<SubSeq(s, i, v - 1)>> \o ElementsFrom(s, v + 1)
        ELSE <<SubSeq(s, i, v - 1)>>
Elements(s) ==
    IF ~JsonValid(s) \/ s[1] # LBRACKET \/ s = <<LBRACKET, RBRACKET>> THEN <<>>
    ELSE ElementsFrom(s, 2)
\* the text of a float: a string for a non-finite value, a number otherwise
FloatTextOK(txt, v) ==
    CASE v.class = "nan" -> txt = Quoted(NaNText)
      [] v.class = "+inf" -> txt = Quoted(PosInfText)
      [] v.class = "-inf" -> txt = Quoted(NegInfText)
      [] OTHER -> IsJsonNumber(txt) /\ ~IsJsonString(txt)

(***************************************************************************)
(* C12: a NaN, +Inf or -Inf float of 32 or 64 bits, given as a scalar or  *)
(* as an element of a slice, is written as the JSON string "NaN", "+Inf"  *)
(* or "-Inf", and a finite float as a bare JSON number.                    *)
(***************************************************************************)
C12_NonFiniteAsString ==
    /\ LastCall \in {"Float64Value", "Float64", "Float32Value", "Float32"}
       => Framed /\ FloatTextOK(ValueText, arg.v)
    /\ LastCall \in {"Floats64Value", "Floats64", "Floats32Value", "Floats32"}
       => /\ Framed
          /\ Len(Elements(ValueText)) = Len(arg.v)
          /\ \A i \in 1..Len(arg.v) : FloatTextOK(Elements(ValueText)[i], arg.v[i])

\* -Inf has been written as a keyed float32 scalar
C12_Witness ==
    /\ LastCall = "Float32"
    /\ arg.v = NegInf
    /\ Appended = <<QUOTE, 97, QUOTE, COLON, QUOTE, 45, 73, 110, 102, QUOTE, COMMA>>

(***************************************************************************)
(* C13: Floats64(key, vals) writes a JSON array of exactly len(vals)      *)
(* elements in the order of vals, a string at every non-finite position   *)
(* and a number at every finite one: [1.23, NaN, 4.56] gives a number, a  *)
(* string and a number.                                                    *)
(***************************************************************************)
C13_Floats64Elements ==
    LastCall \in {"Floats64", "Floats64Value"} =>
        LET es == Elements(ValueText)
        IN  /\ Framed
            /\ JsonValid(ValueText)
            /\ ValueText[1] = LBRACKET
            /\ Len(es) = Len(arg.v)
            /\ \A i \in 1..Len(arg.v) :
                  /\ es[i] = appendFloat(<<>>, arg.v[i], 64)
                  /\ IsJsonNumber(es[i]) = (arg.v[i].class = "finite")
                  /\ IsJsonString(es[i]) = (arg.v[i].class # "finite")

\* Floats64("a", [1.23, NaN, 4.56]) has written [1.23,"NaN",4.56]
C13_Witness ==
    /\ LastCall = "Floats64"
    /\ arg.v = <<F1p23, NaN, F4p56>>
    /\ ValueText = <<LBRACKET, 49, 46, 50, 51, COMMA, QUOTE, 78, 97, 78, QUOTE, COMMA,
                     52, 46, 53, 54, RBRACKET>>
    /\ <<IsJsonNumber(Elements(ValueText)[1]), IsJsonString(Elements(ValueText)[2]),
         IsJsonNumber(Elements(ValueText)[3])>> = <<TRUE, TRUE, TRUE>>

(***************************************************************************)
(* encoding/json's decoding of a string literal, and the valid UTF-8 form *)
(* of a byte string: every byte that starts no valid encoding becomes     *)
(* U+FFFD, as in a Go range loop over the string.                          *)
(***************************************************************************)
HexVal(c) == IF IsDigit(c) THEN c - 48 ELSE IF c >= 97 THEN c - 87 ELSE c - 55
\* utf8.AppendRune for a rune of the basic plane
EncodeRune(r) ==
    IF r < 128 THEN <<r>>
    ELSE IF r < 2048 THEN <<192 + (r \div 64), 128 + (r % 64)>>
    ELSE <<224 + (r \div 4096), 128 + ((r \div 64) % 64), 128 + (r % 64)>>
RECURSIVE ToValidUTF8(_)
ToValidUTF8(s) ==
    IF s = <<>> THEN <<>>
    ELSE LET d == DecodeRuneInString(s)
         IN  IF d = <<RuneError, 1>>
             THEN RuneErrorText \o ToValidUTF8(Tail(s))
             ELSE SubSeq(s, 1, d[2]) \o ToValidUTF8(SubSeq(s, d[2] + 1, Len(s)))
RECURSIVE ValidUTF8(_)
ValidUTF8(s) ==
    \/ s = <<>>
    \/ LET d == DecodeRuneInString(s)
       IN  d # <<RuneError, 1>> /\ ValidUTF8(SubSeq(s, d[2] + 1, Len(s)))
\* the string that the body of a literal, read from index i on, stands for
RECURSIVE UnquoteFrom(_, _)
UnquoteFrom(s, i) ==
    LET c == At(s, i)
    IN  IF c = -1 \/ c = QUOTE THEN <<>>
        ELSE IF c = BACKSLASH THEN
            LET e == At(s, i + 1)
            IN  IF e = 117
                THEN EncodeRune(HexVal(s[i + 2]) * 4096 + HexVal(s[i + 3]) * 256
                                + HexVal(s[i + 4]) * 16 + HexVal(s[i + 5]))
                        \o UnquoteFrom(s, i + 6)
                ELSE <<CASE e = 98 -> 8 [] e = 102 -> 12 [] e = 110 -> 10
                         [] e = 114 -> 13 [] e = 116 -> 9 [] OTHER -> e>>
                        \o UnquoteFrom(s, i + 2)
        ELSE LET d == DecodeRuneInString(SubSeq(s, i, Len(s)))
             IN  IF d = <<RuneError, 1>> THEN RuneErrorText \o UnquoteFrom(s, i + 1)
                 ELSE SubSeq(s, i, i + d[2] - 1) \o UnquoteFrom(s, i + d[2])
Unquote(s) == UnquoteFrom(s, 2)

(***************************************************************************)
(* C14: the literal the string encoder writes for a string s is a JSON    *)
(* string that decodes to s when s is valid UTF-8 (the empty string,      *)
(* quotes, backslashes, control bytes and multi-byte characters           *)
(* included), and to s with every invalid byte replaced by U+FFFD         *)
(* otherwise.                                                              *)
(***************************************************************************)
C14_StringRoundTrip ==
    LastCall \in {"StringValue", "String"} =>
        /\ Framed
        /\ IsJsonString(ValueText)
        /\ Unquote(ValueText) = ToValidUTF8(arg.v)
        /\ ValidUTF8(arg.v) => Unquote(ValueText) = arg.v

\* a control byte and a two-byte character have been encoded
C14_Witness ==
    /\ LastCall = "String"
    /\ arg.v = <<31, 195, 169>>
    /\ ValueText = <<QUOTE, BACKSLASH, 117, 48, 48, 49, 102, 195, 169, QUOTE>>
    /\ Unquote(ValueText) = arg.v

\* the value calls, by the names hist gives them
TimeCalls == {"TimeValue", "Time", "TimesValue", "Times"}
FloatCalls ==
    {"Float64Value", "Float64", "Float32Value", "Float32", "Floats64Value", "Floats64",
     "Floats32Value", "Floats32"}

(***************************************************************************)
(* C15 (as stated): for every input to every operation, time format       *)
(* strings included, the bytes that Build returns are valid UTF-8.        *)
(***************************************************************************)
C15_BuildIsValidUTF8 == LastCall = "Build" => ValidUTF8(Result)

(***************************************************************************)
(* C16 (as stated): every value operation appends a valid JSON value for  *)
(* every input, and TimeValue and Times append well-formed JSON string    *)
(* literals for every format string.                                       *)
(***************************************************************************)
C16_ValuesAreValidJSON ==
    /\ LastCall \in TimeCalls \cup FloatCalls => Framed /\ JsonValid(ValueText)
    /\ LastCall \in {"TimeValue", "Time"} => IsJsonString(ValueText)
    /\ LastCall \in {"TimesValue", "Times"}
       => /\ Len(Elements(ValueText)) = Len(arg.v.t)
          /\ \A i \in 1..Len(arg.v.t) : IsJsonString(Elements(ValueText)[i])

\* the keyed calls, by the names hist gives them
KeyedCalls ==
    {"Int", "Int8", "Int16", "Int32", "Int64", "Uint", "Uint8", "Uint16", "Uint32",
     "Uint64", "Float32", "Float64", "Bool", "String", "Duration", "Ints", "Ints8",
     "Ints16", "Ints32", "Ints64", "Uints", "Uints8", "Uints16", "Uints32",
     "Uints64", "Floats32", "Floats64", "Bools", "Strings", "Durations", "Time",
     "Times", "Null", "Object", "Array"}

(***************************************************************************)
(* C17: every keyed operation leaves the buffer, memory included, in the  *)
(* state that Key(key) followed by the bare value operation on the same    *)
(* argument leaves: X(key, v) is Key(key) then XValue(v) for every kind of *)
(* value and of slice, Object(key) is Key(key) then StartObject() and      *)
(* Array(key) is Key(key) then StartArray().                               *)
(***************************************************************************)
C17_KeyedIsKeyThenValue ==
    [][/\ LastCall' \in KeyedCalls => arg'.keyed
       /\ LastCall' = "Int" => Mem' = IntValueMem(KeyMem(Mem, arg'.key), arg'.v)
       /\ LastCall' = "Ints" => Mem' = IntsValueMem(KeyMem(Mem, arg'.key), arg'.v)
       /\ LastCall' = "Int8" => Mem' = Int8ValueMem(KeyMem(Mem, arg'.key), arg'.v)
       /\ LastCall' = "Ints8" => Mem' = Ints8ValueMem(KeyMem(Mem, arg'.key), arg'.v)
       /\ LastCall' = "Int16" => Mem' = Int16ValueMem(KeyMem(Mem, arg'.key), arg'.v)
       /\ LastCall' = "Ints16" => Mem' = Ints16ValueMem(KeyMem(Mem, arg'.key), arg'.v)
       /\ LastCall' = "Int32" => Mem' = Int32ValueMem(KeyMem(Mem, arg'.key), arg'.v)
       /\ LastCall' = "Ints32" => Mem' = Ints32ValueMem(KeyMem(Mem, arg'.key), arg'.v)
       /\ LastCall' = "Int64" => Mem' = Int64ValueMem(KeyMem(Mem, arg'.key), arg'.v)
       /\ LastCall' = "Ints64" => Mem' = Ints64ValueMem(KeyMem(Mem, arg'.key), arg'.v)
       /\ LastCall' = "Uint" => Mem' = UintValueMem(KeyMem(Mem, arg'.key), arg'.v)
       /\ LastCall' = "Uints" => Mem' = UintsValueMem(KeyMem(Mem, arg'.key), arg'.v)
       /\ LastCall' = "Uint8" => Mem' = Uint8ValueMem(KeyMem(Mem, arg'.key), arg'.v)
       /\ LastCall' = "Uints8" => Mem' = Uints8ValueMem(KeyMem(Mem, arg'.key), arg'.v)
       /\ LastCall' = "Uint16" => Mem' = Uint16ValueMem(KeyMem(Mem, arg'.key), arg'.v)
       /\ LastCall' = "Uints16" => Mem' = Uints16ValueMem(KeyMem(Mem, arg'.key), arg'.v)
       /\ LastCall' = "Uint32" => Mem' = Uint32ValueMem(KeyMem(Mem, arg'.key), arg'.v)
       /\ LastCall' = "Uints32" => Mem' = Uints32ValueMem(KeyMem(Mem, arg'.key), arg'.v)
       /\ LastCall' = "Uint64" => Mem' = Uint64ValueMem(KeyMem(Mem, arg'.key), arg'.v)
       /\ LastCall' = "Uints64" => Mem' = Uints64ValueMem(KeyMem(Mem, arg'.key), arg'.v)
       /\ LastCall' = "Float32" => Mem' = Float32ValueMem(KeyMem(Mem, arg'.key), arg'.v)
       /\ LastCall' = "Floats32" => Mem' = Floats32ValueMem(KeyMem(Mem, arg'.key), arg'.v)
       /\ LastCall' = "Float64" => Mem' = Float64ValueMem(KeyMem(Mem, arg'.key), arg'.v)
       /\ LastCall' = "Floats64" => Mem' = Floats64ValueMem(KeyMem(Mem, arg'.key), arg'.v)
       /\ LastCall' = "Bool" => Mem' = BoolValueMem(KeyMem(Mem, arg'.key), arg'.v)
       /\ LastCall' = "Bools" => Mem' = BoolsValueMem(KeyMem(Mem, arg'.key), arg'.v)
       /\ LastCall' = "String" => Mem' = StringValueMem(KeyMem(Mem, arg'.key), arg'.v)
       /\ LastCall' = "Strings" => Mem' = StringsValueMem(KeyMem(Mem, arg'.key), arg'.v)
       /\ LastCall' = "Duration" => Mem' = DurationValueMem(KeyMem(Mem, arg'.key), arg'.v)
       /\ LastCall' = "Durations" => Mem' = DurationsValueMem(KeyMem(Mem, arg'.key), arg'.v)
       /\ LastCall' = "Time"
           => Mem' = TimeValueMem(KeyMem(Mem, arg'.key), arg'.v.t, arg'.v.format)
       /\ LastCall' = "Times"
           => Mem' = TimesValueMem(KeyMem(Mem, arg'.key), arg'.v.t, arg'.v.format)
       /\ LastCall' = "Null" => Mem' = NullValueMem(KeyMem(Mem, arg'.key))
       /\ LastCall' = "Object" => Mem' = StartObjectMem(KeyMem(Mem, arg'.key))
       /\ LastCall' = "Array" => Mem' = StartArrayMem(KeyMem(Mem, arg'.key))]_vars

\* Int8("a", -128) has written "a":-128,
C17_Witness ==
    /\ LastCall = "Int8"
    /\ arg.keyed
    /\ arg.v = <<128>>
    /\ Appended = <<QUOTE, 97, QUOTE, COLON, MINUS, 49, 50, 56, COMMA>>

\* the i-th bare value call of the loop over vals, when vals has an i-th element
\* (the memory m the calls before it leave is worked out before the call is)
ValueOfElement(m, vals, i, ValueMem(_, _)) ==
    IF m.buf.len > 0 /\ i <= Len(vals) THEN ValueMem(m, vals[i]) ELSE m

\* StartArray(), one bare value call per element of vals in order, EndArray(),
\* for the slices of up to five elements
ArrayOfValues(m, vals, ValueMem(_, _)) ==
    EndArrayMem(
        ValueOfElement(
            ValueOfElement(
                ValueOfElement(
                    ValueOfElement(
                        ValueOfElement(StartArrayMem(m), vals, 1, ValueMem),
                        vals, 2, ValueMem),
                    vals, 3, ValueMem),
                vals, 4, ValueMem),
            vals, 5, ValueMem))

(***************************************************************************)
(* C18 (as stated): every typed slice operation leaves the same bytes as  *)
(* StartArray(), one bare value call of its kind per element in order and  *)
(* EndArray(), the empty slice included.                                   *)
(***************************************************************************)
C18_SliceIsArrayOfValues ==
    [][LET Opened == IF arg'.keyed THEN KeyMem(Mem, arg'.key) ELSE Mem
           TimeOfFormat(m, v) == TimeValueMem(m, v, arg'.v.format)
       IN  /\ LastCall' \in {"Ints", "IntsValue"}
              => Contents(Mem') = Contents(ArrayOfValues(Opened, arg'.v, IntValueMem))
           /\ LastCall' \in {"Ints8", "Ints8Value"}
              => Contents(Mem') = Contents(ArrayOfValues(Opened, arg'.v, Int8ValueMem))
           /\ LastCall' \in {"Ints16", "Ints16Value"}
              => Contents(Mem') = Contents(ArrayOfValues(Opened, arg'.v, Int16ValueMem))
           /\ LastCall' \in {"Ints32", "Ints32Value"}
              => Contents(Mem') = Contents(ArrayOfValues(Opened, arg'.v, Int32ValueMem))
           /\ LastCall' \in {"Ints64", "Ints64Value"}
              => Contents(Mem') = Contents(ArrayOfValues(Opened, arg'.v, Int64ValueMem))
           /\ LastCall' \in {"Uints", "UintsValue"}
              => Contents(Mem') = Contents(ArrayOfValues(Opened, arg'.v, UintValueMem))
           /\ LastCall' \in {"Uints8", "Uints8Value"}
              => Contents(Mem') = Contents(ArrayOfValues(Opened, arg'.v, Uint8ValueMem))
           /\ LastCall' \in {"Uints16", "Uints16Value"}
              => Contents(Mem') = Contents(ArrayOfValues(Opened, arg'.v, Uint16ValueMem))
           /\ LastCall' \in {"Uints32", "Uints32Value"}
              => Contents(Mem') = Contents(ArrayOfValues(Opened, arg'.v, Uint32ValueMem))
           /\ LastCall' \in {"Uints64", "Uints64Value"}
              => Contents(Mem') = Contents(ArrayOfValues(Opened, arg'.v, Uint64ValueMem))
           /\ LastCall' \in {"Floats32", "Floats32Value"}
              => Contents(Mem') = Contents(ArrayOfValues(Opened, arg'.v, Float32ValueMem))
           /\ LastCall' \in {"Floats64", "Floats64Value"}
              => Contents(Mem') = Contents(ArrayOfValues(Opened, arg'.v, Float64ValueMem))
           /\ LastCall' \in {"Bools", "BoolsValue"}
              => Contents(Mem') = Contents(ArrayOfValues(Opened, arg'.v, BoolValueMem))
           /\ LastCall' \in {"Strings", "StringsValue"}
              => Contents(Mem') = Contents(ArrayOfValues(Opened, arg'.v, StringValueMem))
           /\ LastCall' \in {"Durations", "DurationsValue"}
              => Contents(Mem') = Contents(ArrayOfValues(Opened, arg'.v, DurationValueMem))
           /\ LastCall' \in {"Times", "TimesValue"}
              => Contents(Mem') = Contents(ArrayOfValues(Opened, arg'.v.t, TimeOfFormat))]_vars

(***************************************************************************)
(* Reading a decimal numeral back, apart from the way it was written: the *)
(* digits are taken four at a time into a 64-bit value kept as four 16-bit *)
(* limbs, and a numeral of 2^64 or more is marked.                         *)
(***************************************************************************)
DigitAt(s, i) == s[i] - 48
\* the number the n <= 4 digits of s from position i stand for
ChunkValue(s, i, n) ==
    CASE n = 1 -> DigitAt(s, i)
      [] n = 2 -> DigitAt(s, i) * 10 + DigitAt(s, i + 1)
      [] n = 3 -> DigitAt(s, i) * 100 + DigitAt(s, i + 1) * 10 + DigitAt(s, i + 2)
      [] OTHER -> DigitAt(s, i) * 1000 + DigitAt(s, i + 1) * 100
                  + DigitAt(s, i + 2) * 10 + DigitAt(s, i + 3)
Parsed(x1, x2, x3, x4, wasOver) ==
    [v |-> <<x1 % 256, (x1 \div 256) % 256, x2 % 256, (x2 \div 256) % 256,
             x3 % 256, (x3 \div 256) % 256, x4 % 256, (x4 \div 256) % 256>>,
     over |-> wasOver \/ x4 \div 65536 > 0]
MulAdd3(u, k, x1, x2, x3, wasOver) ==
    Parsed(x1, x2, x3, (u[8] * 256 + u[7]) * k + x3 \div 65536, wasOver)
MulAdd2(u, k, x1, x2, wasOver) ==
    MulAdd3(u, k, x1, x2, (u[6] * 256 + u[5]) * k + x2 \div 65536, wasOver)
MulAdd1(u, k, x1, wasOver) ==
    MulAdd2(u, k, x1, (u[4] * 256 + u[3]) * k + x1 \div 65536, wasOver)
\* p.v * k + c, for k <= 10000 and c < k
MulAdd(p, k, c) == MulAdd1(p.v, k, (p.v[2] * 256 + p.v[1]) * k + c, p.over)

\* the value of the digits of s from position i on, after the value p of the
\* digits before them
RECURSIVE ParseFrom(_, _, _)
ParseFrom(s, i, p) ==
    IF p.over \/ i > Len(s) THEN p
    ELSE ParseFrom(s, i + 4, MulAdd(p, 10000, ChunkValue(s, i, 4)))
ParseDecimal(s) ==
    LET n == ((Len(s) - 1) % 4) + 1
    IN  ParseFrom(s, n + 1, Parsed(ChunkValue(s, 1, n), 0, 0, 0, FALSE))

\* s is a decimal numeral without a sign: digits only, no leading zero
IsNumeral(s) ==
    /\ s # <<>>
    /\ Len(s) <= 20
    /\ \A i \in 1..Len(s) : IsDigit(s[i])
    /\ Len(s) > 1 => s[1] # 48

\* m is the magnitude of the negative two's complement number v of Len(v)
\* bytes: m + v = 2^(8 * Len(v)), byte by byte from the least significant
IsMagnitudeOf(m, v) ==
    /\ \A i \in (Len(v) + 1)..8 : m[i] = 0
    /\ \E j \in 1..Len(v) :
          /\ \A i \in 1..(j - 1) : v[i] = 0 /\ m[i] = 0
          /\ m[j] + v[j] = 256
          /\ \A i \in (j + 1)..Len(v) : m[i] + v[i] = 255

\* txt is the base-10 text of the integer v of Len(v) bytes, signed or not
IsDecimalOf(txt, v, signed) ==
    LET neg == signed /\ IsNegative(v)
        ds == IF txt # <<>> /\ txt[1] = MINUS THEN Tail(txt) ELSE txt
    IN  /\ txt # <<>>
        /\ (txt[1] = MINUS) = neg
        /\ IsNumeral(ds)
        /\ ~ParseDecimal(ds).over
        /\ IF neg THEN IsMagnitudeOf(ParseDecimal(ds).v, v)
           ELSE /\ \A i \in 1..Len(v) : ParseDecimal(ds).v[i] = v[i]
                /\ \A i \in (Len(v) + 1)..8 : ParseDecimal(ds).v[i] = 0

\* the integer calls, by the names hist gives them
SignedCalls ==
    {"IntValue", "Int", "Int8Value", "Int8", "Int16Value", "Int16", "Int32Value",
     "Int32", "Int64Value", "Int64"}
UnsignedCalls ==
    {"UintValue", "Uint", "Uint8Value", "Uint8", "Uint16Value", "Uint16",
     "Uint32Value", "Uint32", "Uint64Value", "Uint64"}
SignedSliceCalls ==
    {"IntsValue", "Ints", "Ints8Value", "Ints8", "Ints16Value", "Ints16",
     "Ints32Value", "Ints32", "Ints64Value", "Ints64"}
UnsignedSliceCalls ==
    {"UintsValue", "Uints", "Uints8Value", "Uints8", "Uints16Value", "Uints16",
     "Uints32Value", "Uints32", "Uints64Value", "Uints64"}

(***************************************************************************)
(* C19: for every signed and unsigned integer width the text of a value,  *)
(* as a scalar and as an array element, is the base-10 text of that value: *)
(* no leading zeros, a minus sign exactly for the negative values, and,    *)
(* read back, the value itself, the least and the greatest of the width    *)
(* included (no wrap-around).                                              *)
(***************************************************************************)
C19_IntegerText ==
    /\ LastCall \in SignedCalls \cup UnsignedCalls
       => Framed /\ IsDecimalOf(ValueText, arg.v, LastCall \in SignedCalls)
    /\ LastCall \in SignedSliceCalls \cup UnsignedSliceCalls
       => /\ Framed
          /\ Len(Elements(ValueText)) = Len(arg.v)
          /\ arg.v = <<>> => ValueText = <<LBRACKET, RBRACKET>>
          /\ \A i \in 1..Len(arg.v) :
                IsDecimalOf(Elements(ValueText)[i], arg.v[i],
                            LastCall \in SignedSliceCalls)

\* the least int8 and the greatest int8 have been written as array elements
C19_Witness ==
    /\ LastCall = "Ints8Value"
    /\ arg.v = <<<<128>>, <<127>>>>
    /\ ValueText = <<LBRACKET, MINUS, 49, 50, 56, COMMA, 49, 50, 55, RBRACKET>>

\* the durations whose text is known: 0s, 1ns, 1.5us, 1.5ms, 1.5s, 5m0s,
\* -2h46m40s, and the texts of the least and the greatest Duration
KnownDurations ==
    {<<<<0, 0, 0, 0, 0, 0, 0, 0>>, <<48, 115>>>>,
     <<<<1, 0, 0, 0, 0, 0, 0, 0>>, <<49, 110, 115>>>>,
     <<<<220, 5, 0, 0, 0, 0, 0, 0>>, <<49, 46, 53, 194, 181, 115>>>>,
     <<<<96, 227, 22, 0, 0, 0, 0, 0>>, <<49, 46, 53, 109, 115>>>>,
     <<<<0, 47, 104, 89, 0, 0, 0, 0>>, <<49, 46, 53, 115>>>>,
     <<<<0, 184, 100, 217, 69, 0, 0, 0>>, <<53, 109, 48, 115>>>>,
     <<<<0, 96, 141, 177, 231, 246, 255, 255>>,
       <<45, 50, 104, 52, 54, 109, 52, 48, 115>>>>,
     <<<<0, 0, 0, 0, 0, 0, 0, 128>>,
       <<45, 50, 53, 54, 50, 48, 52, 55, 104, 52, 55, 109, 49, 54, 46, 56, 53, 52, 55,
         55, 53, 56, 48, 56, 115>>>>,
     <<<<255, 255, 255, 255, 255, 255, 255, 127>>,
       <<50, 53, 54, 50, 48, 52, 55, 104, 52, 55, 109, 49, 54, 46, 56, 53, 52, 55, 55,
         53, 56, 48, 55, 115>>>>}

\* txt is the JSON string that holds the text of the duration d
IsDurationString(txt, d) ==
    /\ IsJsonString(txt)
    /\ ~IsJsonNumber(txt)
    /\ \E k \in KnownDurations : k[1] = d /\ txt = Quoted(k[2])

(***************************************************************************)
(* C20: Duration(key, d), DurationValue(d) and every element of Durations *)
(* write d as a JSON string that holds d.String(), 5m0s for five minutes,  *)
(* never as a number; Int64 and Int64Value write a count of nanoseconds as *)
(* a number.                                                               *)
(***************************************************************************)
C20_DurationAsString ==
    /\ LastCall \in {"Duration", "DurationValue"}
       => Framed /\ IsDurationString(ValueText, arg.v)
    /\ LastCall \in {"Durations", "DurationsValue"}
       => /\ Framed
          /\ Len(Elements(ValueText)) = Len(arg.v)
          /\ \A i \in 1..Len(arg.v) : IsDurationString(Elements(ValueText)[i], arg.v[i])
    /\ LastCall \in {"Int64", "Int64Value"}
       => Framed /\ IsJsonNumber(ValueText) /\ ~IsJsonString(ValueText)

\* five minutes have been written under a key as the string "5m0s"
C20_Witness ==
    /\ LastCall = "Duration"
    /\ arg.v = <<0, 184, 100, 217, 69, 0, 0, 0>>
    /\ Appended = <<QUOTE, 97, QUOTE, COLON, QUOTE, 53, 109, 48, 115, QUOTE, COMMA>>

(***************************************************************************)
(* The calls of hist made again on a buffer that is large enough for every *)
(* document, so that append never reallocates.  The arguments are the ones *)
(* the caller passes: the one key, string, integer and boolean.            *)
(***************************************************************************)
RoomyStart == NewObjectMem(<<Zeros(BigCap)>>, Slice(1, 0, BigCap))

\* the call name on memory m (no call is made before NewObject)
CallMem(name, m) ==
    LET k == CHOOSE x \in Keys : TRUE
    IN  IF name = "NewObject" THEN RoomyStart
        ELSE IF m.buf.len = 0 THEN m
        ELSE CASE name = "Key" -> KeyMem(m, k)
               [] name = "NullValue" -> NullValueMem(m)
               [] name = "Null" -> NullMem(m, k)
               [] name = "StringValue" -> StringValueMem(m, CHOOSE x \in Strings : TRUE)
               [] name = "String" -> StringMem(m, k, CHOOSE x \in Strings : TRUE)
               [] name = "Int64Value" -> Int64ValueMem(m, CHOOSE x \in Ints : TRUE)
               [] name = "Int" -> IntMem(m, k, CHOOSE x \in Ints : TRUE)
               [] name = "BoolValue" -> BoolValueMem(m, CHOOSE x \in Bools : TRUE)
               [] name = "Bool" -> BoolMem(m, k, CHOOSE x \in Bools : TRUE)
               [] name = "StartObject" -> StartObjectMem(m)
               [] name = "Object" -> ObjectMem(m, k)
               [] name = "StartArray" -> StartArrayMem(m)
               [] name = "Array" -> ArrayMem(m, k)
               [] name = "EndObject" -> EndObjectMem(m)
               [] name = "EndArray" -> EndArrayMem(m)
               [] name = "Build" -> BuildMem(m)

RECURSIVE Replay(_, _)
Replay(h, n) ==
    IF n = 0 THEN [heap |-> <<>>, buf |-> NilSlice] ELSE CallMem(h[n], Replay(h, n - 1))

\* the object's buffer is no longer the array the caller gave to NewObject
Reallocated == obuf.arr # cbuf.arr

(***************************************************************************)
(* C21: for every call sequence the bytes Build returns are the same      *)
(* whatever the capacity of the buffer given to NewObject: they are the   *)
(* bytes the same calls leave in a buffer that never runs out of capacity, *)
(* also when append had to reallocate.                                     *)
(***************************************************************************)
C21_SameBytesAnyCapacity ==
    LastCall = "Build" =>
        /\ Result = Contents(Replay(hist, Len(hist)))
        /\ Replay(hist, Len(hist)).buf.arr = 1

\* a document that did not fit in the caller's three bytes has been built in
\* a new array
C21_Witness ==
    /\ LastCall = "Build"
    /\ cbuf.cap = SmallCap
    /\ Reallocated
    /\ Len(hist) = MaxCalls + 2
    /\ Result = Contents(Replay(hist, Len(hist)))

\* the slice Build returned is a slice of the array the caller gave to NewObject
SameMemory == res.arr = cbuf.arr

MaxPuts == 6
MaxStrikes == 4
SizeHints == {1, 8, 9}
LowerBounds == {0, 4, DefaultLowerBound}

\* &PooledBuffer{buf: make([]byte, size), strikes: 0}, its array being arr
NewPooledBuffer(arr, size) ==
    [buf |-> Slice(arr, size, size), strikes |-> 0, low |-> 0, sizes |-> {}]

\* NewPool(WithSizeHint(size)): the option replaces p.pool, so it is given
\* to NewPool, before the pool hands out a buffer
WithSizeHint ==
    /\ held = <<>>
    /\ Len(heap) = 1
    /\ \E size \in SizeHints : sizeHint' = size
    /\ UNCHANGED tuned
    /\ UNCHANGED <<heap, cbuf, live, obuf, res, ret, pres, pret, copy, docs, calls,
                   budget, panicked, stack, nest, hist, arg, lowerBound, pooled,
                   held, put, puts, otherVars>>

\* WithLowerBound(bound)(p): an Option is a function on the pool, which
\* NewPool applies and which the caller may apply to a pool in use as well
WithLowerBound ==
    /\ held = <<>>
    /\ Len(heap) = 1 \/ ~tuned
    /\ \E bound \in LowerBounds : lowerBound' = bound
    /\ tuned' = (tuned \/ Len(heap) > 1)
    /\ UNCHANGED <<heap, cbuf, live, obuf, res, ret, pres, pret, copy, docs, calls,
                   budget, panicked, stack, nest, hist, arg, sizeHint, pooled,
                   held, put, puts, otherVars>>

\* the arrays of the buffers bs
Arrays(bs) == {bs[i].buf.arr : i \in 1..Len(bs)}

\* the caller has got o and will build in o.Bytes(): nothing of an earlier
\* document is kept, and the arrays that no buffer refers to are garbage
Gets(o, h, rest) ==
    /\ held = <<>>
    /\ puts < MaxPuts
    /\ held' = <<o>>
    /\ pooled' = rest
    /\ heap' = [a \in DOMAIN h |-> IF a \in Arrays(<<o>> \o rest) THEN h[a] ELSE <<>>]
    /\ cbuf' = o.buf
    /\ live' = FALSE
    /\ obuf' = NilSlice
    /\ res' = NilSlice
    /\ ret' = <<>>
    /\ docs' = 0
    /\ calls' = 0
    /\ stack' = Malformed
    /\ nest' = <<>>
    /\ hist' = <<>>
    /\ UNCHANGED <<pres, pret, copy, budget, panicked, arg, lowerBound, sizeHint,
                   put, puts, tuned, otherVars>>

\* a pool that hands out an item and keeps it
KeepsItem(s, i) == s

\* the pool without the i-th of its items: sync.Pool.Get removes what it returns
WithoutItem(s, i) == SubSeq(s, 1, i - 1) \o SubSeq(s, i + 1, Len(s))

\* p.Get(): sync.Pool.Get returns one of the pooled buffers, or calls New when
\* it finds none
Get ==
    \/ \E i \in 1..Len(pooled) : Gets(pooled[i], heap, WithoutItem(pooled, i))
    \/ /\ Len(heap) < MaxArrays
       /\ pooled = <<>>
       /\ Gets(NewPooledBuffer(Len(heap) + 1, sizeHint),
               Append(heap, Zeros(sizeHint)), pooled)

\* the garbage collector empties the sync.Pool
Collect ==
    /\ pooled # <<>>
    /\ pooled' = <<>>
    /\ UNCHANGED <<heap, cbuf, live, obuf, res, ret, pres, pret, copy, docs, calls,
                   budget, panicked, stack, nest, hist, arg, lowerBound, sizeHint,
                   held, put, puts, tuned, otherVars>>

\* variants of the switch of Put: the fourth strike discards; the lower bound
\* is not looked at
PutBufferAtFour(o, bound) ==
    IF o.buf.cap <= bound THEN [recycled |-> TRUE, strikes |-> 0]
    ELSE IF o.buf.cap \div 2 <= o.buf.len THEN [recycled |-> TRUE, strikes |-> 0]
    ELSE IF o.strikes < MaxStrikes - 1
         THEN [recycled |-> TRUE, strikes |-> o.strikes + 1]
    ELSE [recycled |-> FALSE, strikes |-> o.strikes]

PutBufferAnySize(o, bound) ==
    IF o.buf.cap \div 2 <= o.buf.len THEN [recycled |-> TRUE, strikes |-> 0]
    ELSE IF o.strikes < MaxStrikes THEN [recycled |-> TRUE, strikes |-> o.strikes + 1]
    ELSE [recycled |-> FALSE, strikes |-> o.strikes]

\* a switch that leaves the strikes of a buffer it recycles as they are
PutBufferKeepsStrikes(o, bound) ==
    IF o.buf.cap <= bound THEN [recycled |-> TRUE, strikes |-> o.strikes]
    ELSE IF o.buf.cap \div 2 <= o.buf.len THEN [recycled |-> TRUE, strikes |-> o.strikes]
    ELSE IF o.strikes < MaxStrikes THEN [recycled |-> TRUE, strikes |-> o.strikes + 1]
    ELSE [recycled |-> FALSE, strikes |-> o.strikes]

\* the switch of Put: whether o goes back to the pool, and its strikes then
PutBuffer(o, bound) ==
    IF o.buf.cap <= bound THEN [recycled |-> TRUE, strikes |-> 0]
    ELSE IF o.buf.cap \div 2 <= o.buf.len THEN [recycled |-> TRUE, strikes |-> 0]
    ELSE IF o.strikes < MaxStrikes THEN [recycled |-> TRUE, strikes |-> o.strikes + 1]
    ELSE [recycled |-> FALSE, strikes |-> o.strikes]

\* the returns in a row, this one included, that Put counted as under-utilized
LowReturns(o, bound) ==
    IF o.buf.cap > bound /\ o.buf.len < o.buf.cap \div 2 THEN o.low + 1 ELSE 0

\* the returns of o in a row, this one (with the outcome r) included, that
\* were recycled above the lower bound with less than half of cap(o.buf) as
\* len(o.buf)
UnderHalf(o, bound, r) ==
    IF r.recycled /\ o.buf.cap > bound /\ 2 * o.buf.len < o.buf.cap
    THEN (IF puts > 0 /\ put.arr = o.buf.arr THEN put.under ELSE 0) + 1
    ELSE 0

\* the length of the document the caller built in the buffer it holds
Used == IF live /\ LastCall = "Build" THEN res.len ELSE 0

\* p.Put(o), once the caller has built its document
Put ==
    /\ held # <<>>
    /\ ~live \/ LastCall = "Build"
    /\ LET o == held[1]
           r == PutBuffer(o, lowerBound)
           n == [buf |-> Slice(o.buf.arr, 0, o.buf.cap), strikes |-> r.strikes,
                 low |-> LowReturns(o, lowerBound), sizes |-> o.sizes \cup {Used}]
       IN  /\ pooled' = IF r.recycled THEN Append(pooled, n) ELSE pooled
           /\ put' = [arr |-> o.buf.arr, cap |-> o.buf.cap, len |-> o.buf.len,
                      strikes |-> o.strikes, bound |-> lowerBound, used |-> Used, low |-> n.low,
                      sizes |-> n.sizes, recycled |-> r.recycled,
                      after |-> r.strikes, under |-> UnderHalf(o, lowerBound, r)]
    /\ held' = <<>>
    /\ puts' = puts + 1
    /\ UNCHANGED <<heap, cbuf, live, obuf, res, ret, pres, pret, copy, docs, calls,
                   budget, panicked, stack, nest, hist, arg, lowerBound, sizeHint,
                   tuned, otherVars>>

\* fson.NewObject(buf.Bytes())
NewObjectOnBytes ==
    /\ held # <<>>
    /\ ~live
    /\ Starts("NewObject", NewObjectMem(heap, cbuf))

NextPool ==
    \/ WithSizeHint
    \/ WithLowerBound
    \/ Get
    \/ Collect
    \/ NewObjectOnBytes
    \/ held # <<>> /\ IntKV
    \/ held # <<>> /\ Build
    \/ Put

InitPool == InitOne /\ cbuf.cap = 0

SpecPool == InitPool /\ [][NextPool]_vars

PoolTypeOK ==
    /\ Len(held) <= 1
    /\ Len(pooled) <= 1
    /\ \A i \in 1..Len(pooled) : pooled[i].buf.len = 0 /\ pooled[i].strikes \in 0..MaxStrikes
    /\ \A i \in 1..Len(held) : held[i].buf.len \in {0, held[i].buf.cap}

\* the last Put was given a buffer above the lower bound
PutAbove == puts > 0 /\ put.cap > put.bound

C24_SmallAlwaysRecycled ==
    [][(puts' = puts + 1 /\ held[1].buf.cap < lowerBound) =>
           /\ pooled' = Append(pooled, [held[1] EXCEPT !.buf.len = 0, !.strikes = 0,
                                                      !.low = 0,
                                                      !.sizes = @ \cup {Used}])
           /\ put'.recycled /\ put'.after = 0]_vars

C24_Witness ==
    /\ puts > 0
    /\ put.cap < put.bound
    /\ put.bound = DefaultLowerBound
    /\ put.strikes = MaxStrikes
    /\ put.len < put.cap \div 2
    /\ put.recycled
    /\ put.after = 0
    /\ Len(pooled) = 1 /\ pooled[1].strikes = 0 /\ pooled[1].buf.arr = put.arr

\* C25, as stated: when every use of a pooled buffer builds a document of the
\* same length, Put recycles the buffer every time, whatever its capacity
\* (checked for the uses that fill at least half of the buffer).
C25_SteadyAlwaysRecycled ==
    (/\ puts > 0
     /\ ~tuned
     /\ put.sizes = {put.used}
     /\ 2 * put.used >= put.cap
     /\ put.used <= put.cap) => put.recycled

\* Put counted the return as under-utilized: one more strike, or the discard
Counted == ~put.recycled \/ put.after = put.strikes + 1

\* C26, as stated: for a buffer above the lower bound, Put counts the return as
\* under-utilized exactly when the length of the buffer is less than half of
\* its capacity.
C26_CountedIffLessThanHalf == PutAbove => (Counted <=> 2 * put.len < put.cap)

\* C35, as stated: among any 5 returns in a row of the same buffer that Put
\* recycled while the capacity was above the lower bound, at least one had
\* half of the capacity or more in use (as Put sees it, in len(o.buf)).
C35_OneInFiveUtilized == put.under < MaxStrikes + 1

\* the buffers of the pool and of its callers
Buffers == pooled \o held

\* Put has just been given a buffer at or below the lower bound, or with half
\* of its capacity or more in use
PutResets == puts > 0 /\ (put.cap <= put.bound \/ 2 * put.len >= put.cap)

\* C37: the strikes of every PooledBuffer stay in 0..4, whatever Get and Put
\* calls were made, and right after a Put of a buffer at or below the lower
\* bound, or with at least half of its capacity in use, the buffer is recycled
\* with 0 strikes; after any other Put the strikes are one more than before,
\* or the buffer is gone.
C37_StrikesInRange ==
    /\ \A i \in 1..Len(Buffers) : Buffers[i].strikes \in 0..MaxStrikes
    /\ puts > 0 => put.strikes \in 0..MaxStrikes /\ put.after \in 0..MaxStrikes
    /\ PutResets => put.recycled /\ put.after = 0
    /\ (puts > 0 /\ held = <<>> /\ pooled # <<>> /\ pooled[Len(pooled)].buf.arr = put.arr) =>
           pooled[Len(pooled)].strikes = put.after
    /\ (puts > 0 /\ ~PutResets /\ put.cap \div 2 > put.len) =>
           \/ put.recycled /\ put.after = put.strikes + 1
           \/ ~put.recycled /\ put.strikes = MaxStrikes

\* a buffer with 4 strikes is returned after the lower bound was raised above
\* its capacity: it is back in the pool with no strikes
C37_Witness ==
    /\ puts > 0
    /\ put.strikes = MaxStrikes
    /\ put.cap <= put.bound
    /\ put.after = 0
    /\ pooled # <<>> /\ pooled[1].strikes = 0 /\ pooled[1].buf.arr = put.arr

(***************************************************************************)
(* The builder's buffer before and after a call.                           *)
(***************************************************************************)
Buffer == Contents(Mem)
AllButLast(s) == SubSeq(s, 1, Len(s) - 1)

\* the call `name` has just returned and the calls up to it are well formed
Ends(name) == hist' = Append(hist, name) /\ stack' # Malformed

\* what an End call does to the buffer b, leaving b2
Closes(b, b2, open, close) ==
    /\ Last(b) \in {open, COMMA}
    /\ Last(b) = open => b2 = b \o <<close, COMMA>>
    /\ Last(b) = COMMA => b2 = AllButLast(b) \o <<close, COMMA>>

\* C27: in a well-formed sequence EndObject (EndArray) appends the closing
\* bracket when the buffer ends in the matching opening bracket and overwrites
\* the last byte, then always a comma, otherwise; it then appends a comma, so
\* the buffer ends in the closing bracket and a comma.
C27_EndCloses ==
    [][/\ Ends("EndObject") => Closes(Buffer, Buffer', LBRACE, RBRACE)
       /\ Ends("EndArray") => Closes(Buffer, Buffer', LBRACKET, RBRACKET)]_vars

\* {"a":{"a":8}, : EndObject has overwritten the comma after the member
C27_Witness ==
    /\ hist = <<"NewObject", "Object", "Int", "EndObject">>
    /\ WellFormed
    /\ Suffix(Buffer, 4) = <<COLON, 56, RBRACE, COMMA>>
    /\ Len(Buffer) = 13

\* C28: Build overwrites the trailing comma with } when the last byte is not {
\* and appends } when it is, and returns the buffer; a second Build with no
\* call in between returns the same slice with the same bytes, for the empty
\* object and for an object with members.
C28_BuildAgain ==
    [][hist' = Append(hist, "Build") =>
           /\ res' = obuf' /\ ret' = Buffer'
           /\ Last(Buffer) = LBRACE => Buffer' = Buffer \o <<RBRACE>>
           /\ Last(Buffer) # LBRACE => Buffer' = AllButLast(Buffer) \o <<RBRACE>>
           /\ (stack' # Malformed /\ LastCall # "Build") =>
                  Last(Buffer) \in {LBRACE, COMMA}
           /\ LastCall = "Build" => (res' = res /\ ret' = ret /\ Buffer' = Buffer)]_vars

\* {"a":8} built twice
C28_Witness ==
    /\ hist = <<"NewObject", "Int", "Build", "Build">>
    /\ ret = <<LBRACE, QUOTE, 97, QUOTE, COLON, 56, RBRACE>>
    /\ Result = ret
    /\ Buffer = ret

\* a call on the builder other than Build has just returned
Returned == Usable /\ LastCall \notin {"none", "Build", "CopyOut"}

\* C29, as stated: after any builder call other than Build the buffer ends in
\* { or [ (empty container) or in a comma (awaiting the next member).
C29_TwoSituations == Returned => Last(Buffer) \in {LBRACE, LBRACKET, COMMA}

\* C29: after NewObject, Reset, StartObject and Object the buffer ends in {,
\* after StartArray and Array in [, after Key in a colon (a value has to
\* follow), and after every value and every End call in a comma, which for an
\* End call follows the closing bracket.
C29_ThreeSituations ==
    Returned =>
        Last(Buffer) =
            CASE LastCall \in {"NewObject", "NewObjectOnResult", "Reset", "StartObject",
                               "Object"} -> LBRACE
              [] LastCall \in {"StartArray", "Array"} -> LBRACKET
              [] LastCall = "Key" -> COLON
              [] OTHER -> COMMA

\* {"a":8,"a": : Key has returned
C29_Witness ==
    /\ hist = <<"NewObject", "Int", "Key">>
    /\ WellFormed
    /\ Suffix(Buffer, 6) = <<56, COMMA, QUOTE, 97, QUOTE, COLON>>

(***************************************************************************)
(* A buffer is a prefix of a JSON document when further calls complete it: *)
(* a value if a key is waiting for one, End calls for the containers that  *)
(* are open, and Build.                                                    *)
(***************************************************************************)
Closers == UNION {[1..n -> {"obj", "arr"}] : n \in 0..MaxCalls}

RECURSIVE CloseAll(_, _)
CloseAll(m, ks) ==
    IF ks = <<>> THEN m
    ELSE CloseAll(IF Head(ks) = "obj" THEN EndObjectMem(m) ELSE EndArrayMem(m),
                  Tail(ks))

Extensible(m) ==
    \E ks \in Closers, value \in BOOLEAN :
        JsonValid(Contents(BuildMem(CloseAll(IF value THEN NullValueMem(m) ELSE m, ks))))

ValidPrefix == Buffer[1] = LBRACE /\ Extensible(Mem)

\* no Build has been called on the current document
BeforeBuild == Usable /\ \A i \in 1..Len(hist) : hist[i] # "Build"

CommasIn(s) == {i \in 1..Len(s) : s[i] = COMMA}
\* the position of the k-th comma of s; 0 for k = 0, Len(s) + 1 past the last
CommaAt(s, k) ==
    IF k = 0 THEN 0
    ELSE IF k > Cardinality(CommasIn(s)) THEN Len(s) + 1
    ELSE CHOOSE i \in CommasIn(s) : Cardinality({j \in CommasIn(s) : j <= i}) = k
Piece(s, k) == SubSeq(s, CommaAt(s, k - 1) + 1, CommaAt(s, k) - 1)
Inside(s) == SubSeq(s, 2, Len(s) - 1)

FloatSliceCalls == {"Floats64Value", "Floats64", "Floats32Value", "Floats32"}
OtherSliceCalls ==
    {"StringsValue", "Strings", "BoolsValue", "Bools", "DurationsValue", "Durations"}
TimeSliceCalls == {"TimesValue", "Times"}
SliceCalls ==
    SignedSliceCalls \cup UnsignedSliceCalls \cup FloatSliceCalls \cup OtherSliceCalls
        \cup TimeSliceCalls

\* the slice the last call was given, and the text of its i-th element
SliceGiven == IF LastCall \in TimeSliceCalls THEN arg.v.t ELSE arg.v
ElementText(i) ==
    CASE LastCall \in SignedSliceCalls -> appendInt64(<<>>, arg.v[i])
      [] LastCall \in UnsignedSliceCalls -> appendUint64(<<>>, arg.v[i])
      [] LastCall \in {"Floats64Value", "Floats64"} -> appendFloat64(<<>>, arg.v[i])
      [] LastCall \in {"Floats32Value", "Floats32"} -> appendFloat32(<<>>, arg.v[i])
      [] LastCall \in {"StringsValue", "Strings"} -> appendString(<<>>, arg.v[i])
      [] LastCall \in {"BoolsValue", "Bools"} -> AppendBool(<<>>, arg.v[i])
      [] LastCall \in {"DurationsValue", "Durations"} -> appendDuration(<<>>, arg.v[i])
      [] OTHER -> appendTime(<<>>, arg.v.t[i], arg.v.format)

\* C31: a typed slice operation writes [] for an empty slice; for n >= 1
\* elements it writes [, the texts of the elements in order with n-1 commas
\* between them and none after the last, and ]; one comma follows the ].
C31_ArrayShape ==
    LastCall \in SliceCalls =>
        LET n == Len(SliceGiven)
        IN  /\ Framed
            /\ ValueText[1] = LBRACKET
            /\ Last(ValueText) = RBRACKET
            /\ n = 0 => ValueText = <<LBRACKET, RBRACKET>>
            /\ n >= 1 =>
                  /\ Cardinality(CommasIn(ValueText)) = n - 1
                  /\ \A i \in 1..n : Piece(Inside(ValueText), i) = ElementText(i)

\* Ints8("a", [7, -128, 127]) has written "a":[7,-128,127],
C31_Witness ==
    /\ LastCall = "Ints8"
    /\ arg.v = <<<<7>>, <<128>>, <<127>>>>
    /\ Appended = <<QUOTE, 97, QUOTE, COLON, LBRACKET, 55, COMMA, MINUS, 49, 50, 56,
                    COMMA, 49, 50, 55, RBRACKET, COMMA>>

(***************************************************************************)
(* One ASCII string: the caller constructs an object and gives one string *)
(* as a key, as a bare value or as the value of a key.  The strings are   *)
(* every single byte below 0x80, and the short strings made of a quote, a *)
(* backslash, tab, carriage return, backspace and a letter.               *)
(***************************************************************************)
EscapeBytes == {QUOTE, BACKSLASH, 9, 13, 8, 97}
AsciiIn == {<<b>> : b \in 0..(RuneSelf - 1)} \cup SeqsUpTo(EscapeBytes, MaxStrLen)

KeyAscii ==
    /\ Usable
    /\ calls = 0
    /\ \E k \in AsciiIn :
           DoesUpTo("Key", KeyMem(Mem, k), CallKey(stack, k), nest,
                    [v |-> k, keyed |-> FALSE, key |-> <<>>, at |-> obuf.len],
                    MaxValueLen)

StringValueAscii ==
    \E v \in AsciiIn :
        ValueCall("StringValue", StringValueMem(Mem, v), appendString(<<>>, v), v)

StringAscii ==
    \E k \in Keys, v \in AsciiIn :
        KeyedCall("String", k, StringMem(Mem, k, v), appendString(<<>>, v), v)

NextEscapes ==
    \/ NewObject
    \/ Build
    \/ KeyAscii
    \/ StringValueAscii
    \/ StringAscii

SpecEscapes == InitOne /\ [][NextEscapes]_vars

\* what JSON writes for one ASCII byte inside a string
LowerHexDigit(n) == IF n < 10 THEN 48 + n ELSE 97 + (n - 10)
EscapeOf(b) ==
    CASE b = QUOTE -> <<BACKSLASH, QUOTE>>
      [] b = BACKSLASH -> <<BACKSLASH, BACKSLASH>>
      [] b = 10 -> <<BACKSLASH, 110>>
      [] b = 13 -> <<BACKSLASH, 114>>
      [] b = 9 -> <<BACKSLASH, 116>>
      [] b < 32 /\ b \notin {9, 10, 13} ->
            <<BACKSLASH, 117, 48, 48, LowerHexDigit(b \div 16), LowerHexDigit(b % 16)>>
      [] OTHER -> <<b>>
RECURSIVE Escaped(_)
Escaped(str) == IF str = <<>> THEN <<>> ELSE EscapeOf(Head(str)) \o Escaped(Tail(str))

\* C32: inside a string value or a key the quote and the backslash are written
\* with a backslash before them, newline, carriage return and tab as \n, \r
\* and \t, every other byte below 0x20 as \u00XX with two lower-case hex
\* digits, and every other ASCII byte as it is; a key is written like a value.
C32_Escapes ==
    /\ LastCall = "Key" => Appended = Quoted(Escaped(arg.v)) \o <<COLON>>
    /\ LastCall \in {"StringValue", "String"} =>
           Framed /\ ValueText = Quoted(Escaped(arg.v))

\* the key of a tab, a carriage return and a backspace: "\t\r\u0008":
C32_Witness ==
    /\ LastCall = "Key"
    /\ arg.v = <<9, 13, 8>>
    /\ Appended = <<QUOTE, BACKSLASH, 116, BACKSLASH, 114, BACKSLASH, 117, 48, 48, 48,
                    56, QUOTE, COLON>>

(***************************************************************************)
(* One array of floats, written element by element: Key, StartArray, a    *)
(* bare Float64Value for each value the caller does not skip, EndArray,   *)
(* then more members and Build.  arg keeps the values given to the array, *)
(* the length of the buffer before its [ and the length after its ],      *)
(***************************************************************************)
MaxArrayCalls == 7
FloatsGiven == {F1p23, NaN, F4p56, NegInf}
NoArray == [v |-> <<>>, at |-> 0, end |-> 0]
ArrayArg == IF arg = <<>> THEN NoArray ELSE arg

InitFloatArray == InitBuffers /\ cbuf.cap = SmallCap /\ budget = <<MaxArrayCalls>>

\* o.Key(k), for the array and for the members after it
KeyOfArray ==
    /\ Usable
    /\ \E k \in Keys :
           DoesUpTo("Key", KeyMem(Mem, k), CallKey(stack, k), nest,
                    ArrayArg, MaxValueLen)

\* o.StartArray(), after the key
StartArrayOfFloats ==
    /\ Usable
    /\ LastCall = "Key"
    /\ ArrayArg = NoArray
    /\ DoesUpTo("StartArray", StartArrayMem(Mem), CallStart(stack, "arr"),
                NestStart(nest, "arr"), [NoArray EXCEPT !.at = obuf.len], MaxValueLen)

\* o.Float64Value(v) for the next value of the caller's slice
FloatElement ==
    /\ Usable
    /\ stack # Malformed
    /\ Top(stack).kind = "arr"
    /\ \E v \in FloatsGiven :
           DoesUpTo("Float64Value", Float64ValueMem(Mem, v),
                    CallValue(stack, appendFloat(<<>>, v, 64)), nest,
                    [ArrayArg EXCEPT !.v = Append(@, v)], MaxValueLen)

\* o.EndArray()
EndArrayOfFloats ==
    /\ Usable
    /\ obuf.len > 0
    /\ LET m == EndArrayMem(Mem)
       IN  DoesUpTo("EndArray", m, CallEnd(stack, "arr"), NestEnd(nest, "arr"),
                    [ArrayArg EXCEPT !.end = m.buf.len], MaxValueLen)

\* o.Int(k, v), a member after the array
IntAfterArray ==
    /\ Usable
    /\ \E k \in Keys, v \in Ints :
           DoesUpTo("Int", IntMem(Mem, k, v),
                    CallValue(CallKey(stack, k), AppendInt(<<>>, v)), nest,
                    ArrayArg, MaxValueLen)

\* the caller makes the calls in an order that is well formed
NextFloatArray ==
    \/ NewObject
    \/ KeyOfArray /\ stack' # Malformed
    \/ StartArrayOfFloats /\ stack' # Malformed
    \/ FloatElement
    \/ EndArrayOfFloats /\ stack' # Malformed
    \/ IntAfterArray /\ stack' # Malformed
    \/ Build /\ stack' # Malformed

SpecFloatArray == InitFloatArray /\ [][NextFloatArray]_vars

\* the array has been closed, and its text in the buffer
ArrayClosed == Usable /\ arg # <<>> /\ arg.end > 0
ClosedArray == SubSeq(Buffer, arg.at + 1, arg.end - 1)

MaxIters == 6

\* the switch on a byte that needs an escape
EscapeText(c) ==
    CASE c = BACKSLASH \/ c = QUOTE -> <<BACKSLASH, c>>
      [] c = 10 -> <<BACKSLASH, 110>>
      [] c = 13 -> <<BACKSLASH, 114>>
      [] c = 9 -> <<BACKSLASH, 116>>
      [] OTHER -> <<BACKSLASH, 117, 48, 48, Hex[(c \div 16) + 1], Hex[(c % 16) + 1]>>

\* a loop body that does not step over an invalid byte
LoopBodyStuck(l) ==
    LET c == l.s[l.currentIndex + 1]
        d == DecodeRuneInString(SubSeq(l.s, l.currentIndex + 1, Len(l.s)))
    IN  IF c >= RuneSelf /\ d = <<RuneError, 1>>
        THEN [l EXCEPT !.iters = @ + 1]
        ELSE [l EXCEPT !.currentIndex = @ + 1, !.iters = @ + 1]

\* the body of the for loop, entered with currentIndex < len(s)
LoopBody(l) ==
    LET c == l.s[l.currentIndex + 1]
        run == SubSeq(l.s, l.lastProcessedIndex + 1, l.currentIndex)
        d == DecodeRuneInString(SubSeq(l.s, l.currentIndex + 1, Len(l.s)))
    IN  IF c >= RuneSelf THEN
            IF d[1] = RuneError /\ d[2] = 1
            THEN [l EXCEPT !.buf = @ \o run \o RuneErrorText,
                           !.currentIndex = @ + 1,
                           !.lastProcessedIndex = l.currentIndex + 1,
                           !.iters = @ + 1]
            ELSE [l EXCEPT !.currentIndex = @ + d[2], !.iters = @ + 1]
        ELSE IF c >= 32 /\ c # BACKSLASH /\ c # QUOTE
        THEN [l EXCEPT !.currentIndex = @ + 1, !.iters = @ + 1]
        ELSE [l EXCEPT !.buf = @ \o run \o EscapeText(c),
                       !.currentIndex = @ + 1,
                       !.lastProcessedIndex = l.currentIndex + 1,
                       !.iters = @ + 1]

\* safeAppendString(decodeRune, buf, s) is called
LoopEnter ==
    /\ loop.pc = "idle"
    /\ \E str \in StringsIn :
           loop' = [pc |-> "loop", s |-> str, lastProcessedIndex |-> 0,
                    currentIndex |-> 0, buf |-> <<>>, iters |-> 0]
    /\ UNCHANGED <<builderVars, poolVars, callers>>

\* one iteration
LoopStep ==
    /\ loop.pc = "loop"
    /\ loop.currentIndex < Len(loop.s)
    /\ loop.iters < MaxIters
    /\ loop' = LoopBody(loop)
    /\ UNCHANGED <<builderVars, poolVars, callers>>

\* the loop condition fails: return append(buf, s[lastProcessedIndex:]...)
LoopExit ==
    /\ loop.pc = "loop"
    /\ loop.currentIndex >= Len(loop.s)
    /\ loop' = [loop EXCEPT !.pc = "done",
                            !.buf = @ \o SubSeq(loop.s, loop.lastProcessedIndex + 1,
                                                Len(loop.s))]
    /\ UNCHANGED <<builderVars, poolVars, callers>>

NextLoop == LoopEnter \/ LoopStep \/ LoopExit

InitLoop == InitOne /\ cbuf.cap = 0

SpecLoop == InitLoop /\ [][NextLoop]_vars

\* the goroutine that runs the loop keeps running
SpecLoopFair == InitLoop /\ [][NextLoop]_vars /\ WF_vars(LoopStep) /\ WF_vars(LoopExit)

\* the loop, its move from one iteration to the next, and the bytes of s it
\* has dealt with: those before lastProcessedIndex, written or replaced
Looping == loop.pc = "loop"
Iterates == Looping /\ loop'.pc = "loop" /\ loop' # loop
Dealt(l) == Escaped(ToValidUTF8(SubSeq(l.s, 1, l.lastProcessedIndex)))

\* C34: the escaping loop terminates for every string, valid UTF-8 or not.
\* Every iteration advances currentIndex by at least one byte and never past
\* the end, so there are at most len(s) iterations; the bytes appended so far
\* are those of s before lastProcessedIndex, each written or replaced once,
\* and on return those of the whole of s.
C34_LoopTerminates ==
    /\ [][Iterates => /\ loop'.currentIndex >= loop.currentIndex + 1
                      /\ loop'.currentIndex <= Len(loop.s)
                      /\ loop'.iters = loop.iters + 1]_vars
    /\ [](loop.pc # "idle" =>
              /\ loop.iters <= Len(loop.s)
              /\ loop.lastProcessedIndex <= loop.currentIndex
              /\ loop.pc = "loop" => loop.buf = Dealt(loop)
              /\ loop.pc = "done" =>
                     /\ loop.buf = Escaped(ToValidUTF8(loop.s))
                     /\ loop.buf = safeAppendString(<<>>, loop.s))
    /\ (Looping ~> loop.pc = "done")

\* a byte that is no UTF-8, then the two bytes of U+00E9: two iterations
C34_Witness ==
    /\ loop.pc = "done"
    /\ loop.s = <<255, 195, 169>>
    /\ loop.iters = 2
    /\ loop.buf = RuneErrorText \o <<195, 169>>

(***************************************************************************)
(* What a call on the builder leaves of the buffer it found.               *)
(***************************************************************************)
\* a call on the builder that starts no document has returned in this step
Continued ==
    /\ Usable /\ Usable'
    /\ hist' = Append(hist, Last(hist'))
    /\ Last(hist') \notin {"NewObject", "NewObjectOnResult", "Reset", "CopyOut"}

\* s starts with t
StartsWith(s, t) == Len(s) >= Len(t) /\ SubSeq(s, 1, Len(t)) = t

\* C36: a call other than NewObject and Reset leaves the buffer at least as
\* long as it was, with every byte before the last one as it was.  Key, the
\* value calls and the Start calls only append: the old buffer is a prefix of
\* the new one.  EndObject, EndArray and Build change no byte but the last,
\* and EndObject and EndArray then append.
C36_OnlyLastByteChanges ==
    [][Continued =>
           /\ Len(Buffer') >= Len(Buffer)
           /\ StartsWith(Buffer', AllButLast(Buffer))
           /\ Last(hist') \notin {"EndObject", "EndArray", "Build"} =>
                  StartsWith(Buffer', Buffer) /\ Len(Buffer') > Len(Buffer)
           /\ Last(hist') \in {"EndObject", "EndArray"} => Len(Buffer') > Len(Buffer)
           /\ Last(hist') = "Build" => Len(Buffer') <= Len(Buffer) + 1]_vars

\* {{"a":8}, : EndObject wrote the brace over the comma of {{"a":8,
C36_Witness ==
    /\ Usable
    /\ hist = <<"NewObject", "StartObject", "Int", "EndObject">>
    /\ Buffer = <<LBRACE, LBRACE, QUOTE, 97, QUOTE, COLON, 56, RBRACE, COMMA>>

(***************************************************************************)
(* Goroutines that share one Pool, as the parallel tests do:               *)
(*     buf := buffPool.Get(); defer buffPool.Put(buf)                      *)
(*     b := fson.NewObject(buf.Bytes()).Int("a", c).Build()                *)
(* callers[c] holds where goroutine c is, the PooledBuffer o it has got    *)
(* and the slice b of its builder.  The calls of sync.Pool are atomic; the *)
(* steps of a goroutine interleave with those of the others in any order.  *)
(***************************************************************************)
MaxCallers == 2
MaxRounds == 3

NoBuffer == [buf |-> NilSlice, strikes |-> 0, low |-> 0, sizes |-> {}]
Idle == [pc |-> "idle", o |-> NoBuffer, b |-> NilSlice]

\* the goroutines that hold a buffer: between Get and the end of Put
Holding == {c \in 1..Len(callers) : callers[c].pc # "idle"}
\* the goroutines whose builder has a buffer
Building == {c \in 1..Len(callers) : callers[c].pc \in {"open", "member", "built"}}

\* the document of goroutine c
DocOf(c) == <<LBRACE, QUOTE, 97, QUOTE, COLON, 48 + c, RBRACE>>

\* the fields that the goroutines' steps leave alone
SharedFrame ==
    UNCHANGED <<cbuf, live, obuf, res, ret, pres, pret, copy, docs, calls, budget,
                panicked, stack, nest, hist, arg, lowerBound, sizeHint, held, put,
                tuned, loop>>

\* t.Parallel(): one more test runs
Go ==
    /\ Len(callers) < MaxCallers
    /\ callers' = Append(callers, Idle)
    /\ UNCHANGED <<heap, pooled, puts>>
    /\ SharedFrame

\* buf := p.Get(): sync.Pool.Get removes one of the items of the pool and
\* returns it, or returns what New makes
CallerGet(c) ==
    /\ callers[c].pc = "idle"
    /\ puts + Cardinality(Holding) < MaxRounds
    /\ \/ \E i \in 1..Len(pooled) :
              /\ callers' = [callers EXCEPT ![c] = [Idle EXCEPT !.pc = "got",
                                                                !.o = pooled[i]]]
              /\ pooled' = WithoutItem(pooled, i)
              /\ heap' = heap
       \/ /\ Len(heap) < MaxArrays
          /\ callers' = [callers EXCEPT ![c] =
                             [Idle EXCEPT !.pc = "got",
                                          !.o = NewPooledBuffer(Len(heap) + 1, sizeHint)]]
          /\ heap' = Append(heap, Zeros(sizeHint))
          /\ pooled' = pooled
    /\ puts' = puts
    /\ SharedFrame

\* a call of goroutine c on its builder, which leaves memory m
CallerDoes(c, pc, m) ==
    /\ Len(m.heap) <= MaxArrays
    /\ heap' = m.heap
    /\ callers' = [callers EXCEPT ![c].pc = pc, ![c].b = m.buf]
    /\ UNCHANGED <<pooled, puts>>
    /\ SharedFrame

\* fson.NewObject(buf.Bytes())
CallerNewObject(c) ==
    /\ callers[c].pc = "got"
    /\ CallerDoes(c, "open", NewObjectMem(heap, callers[c].o.buf))

\* .Int("a", c)
CallerInt(c) ==
    /\ callers[c].pc = "open"
    /\ CallerDoes(c, "member", IntMem([heap |-> heap, buf |-> callers[c].b], <<97>>, IntLit(c)))

\* .Build()
CallerBuild(c) ==
    /\ callers[c].pc = "member"
    /\ CallerDoes(c, "built", BuildMem([heap |-> heap, buf |-> callers[c].b]))

\* p.Put(buf), up to the call of sync.Pool.Put: the switch, and o.buf = o.buf[:0].
\* The test returns, and the array its builder allocated is garbage.
CallerPutSwitch(c) ==
    /\ callers[c].pc = "built"
    /\ LET o == callers[c].o
           r == PutBuffer(o, lowerBound)
       IN  /\ callers' = [callers EXCEPT ![c] =
                   IF r.recycled
                   THEN [pc |-> "putting",
                         o |-> [o EXCEPT !.buf.len = 0, !.strikes = r.strikes],
                         b |-> NilSlice]
                   ELSE Idle]
           /\ heap' = [a \in DOMAIN heap |->
                          IF a = callers[c].b.arr /\ a # o.buf.arr THEN <<>>
                          ELSE IF a = o.buf.arr /\ ~r.recycled THEN <<>>
                          ELSE heap[a]]
    /\ puts' = puts + 1
    /\ pooled' = pooled
    /\ SharedFrame

\* p.pool.Put(o)
CallerPoolPut(c) ==
    /\ callers[c].pc = "putting"
    /\ pooled' = Append(pooled, callers[c].o)
    /\ callers' = [callers EXCEPT ![c] = Idle]
    /\ UNCHANGED <<heap, puts>>
    /\ SharedFrame

NextShared ==
    \/ callers = <<>> /\ WithSizeHint
    \/ callers = <<>> /\ WithLowerBound
    \/ Go
    \/ \E c \in 1..Len(callers) : CallerGet(c)
    \/ \E c \in 1..Len(callers) : CallerNewObject(c)
    \/ \E c \in 1..Len(callers) : CallerInt(c)
    \/ \E c \in 1..Len(callers) : CallerBuild(c)
    \/ \E c \in 1..Len(callers) : CallerPutSwitch(c)
    \/ \E c \in 1..Len(callers) : CallerPoolPut(c)
    \/ Collect

SpecShared == InitPool /\ [][NextShared]_vars

\* the text goroutine c has written so far
Written(c) == View(heap, callers[c].b)

\* C38: under every interleaving of the goroutines that share the pool, a
\* PooledBuffer that a goroutine holds (from its Get to the end of its Put) is
\* held by no other goroutine and is not in the pool, and no buffer is in the
\* pool twice; the builders of two goroutines never have the same array, and
\* what each has written is a prefix of its own document, which Build returns
\* whole.
C38_OneHolder ==
    /\ \A c, d \in Holding : c # d => callers[c].o.buf.arr # callers[d].o.buf.arr
    /\ \A c \in Holding : callers[c].o.buf.arr \notin Arrays(pooled)
    /\ \A i, j \in 1..Len(pooled) : i # j => pooled[i].buf.arr # pooled[j].buf.arr
    /\ \A c, d \in Building : c # d => callers[c].b.arr # callers[d].b.arr
    /\ \A c \in Building :
           /\ callers[c].pc = "open" => Written(c) = <<LBRACE>>
           /\ callers[c].pc = "member" => Written(c) = AllButLast(DocOf(c)) \o <<COMMA>>
           /\ callers[c].pc = "built" => Written(c) = DocOf(c)

\* goroutine 2 builds in the buffer that goroutine 1 put back, while
\* goroutine 1 builds in a new one
C38_Witness ==
    /\ Len(callers) = 2
    /\ callers[1].pc = "member"
    /\ callers[2].pc = "built"
    /\ callers[2].o.buf.arr < callers[1].o.buf.arr
    /\ puts > 0
    /\ put = NoPut
    /\ Written(2) = DocOf(2)
====
